---- MODULE Spec2Model ----
(***************************************************************************)
(* Review job queue (ReviewJobQueue) and bounded-concurrency chunk         *)
(* dispatcher (MultiThreadAmpReviewer) of the GitLab code review agent,    *)
(* with the diff splitter, the webhook route and processor, and the        *)
(* request retry of the GitLab client.                                     *)
(*                                                                         *)
(* Node.js runs the code on one event loop: a step of the model is one     *)
(* run-to-completion turn, i.e. a synchronous call from its entry to its   *)
(* return, or the continuation of an async function from the settlement    *)
(* of the promise it awaits up to its next await (or its end).  The loop   *)
(* of createBatches alone is followed pass by pass (SpecBatches).          *)
(***************************************************************************)
EXTENDS Integers, Sequences, FiniteSets, TLC

\* ------------------------------------------------------------------ bounds
\* Largest maxQueueSize the constructor is given.
MaxQueueSizeBound == 2
\* Number of enqueueReview calls made in one behaviour.
MaxEnqueues == 3
\* Largest number of chunks handed to multiThreadReview.
MaxChunks == 4
\* Largest maxConcurrent the dispatcher is configured with.
MaxConcurrentBound == 3
\* Largest number of lines of a diff text handed to the splitter.
MaxLines == 4
\* Largest maxQueueSize of the queue behind the webhook route.
HookQueueSizeBound == 1
\* Number of makeRequest calls made on one GitLabClient.
MaxRequests == 3

\* --------------------------------------------------------------- constants
QUEUED == "queued"
RUNNING == "running"
COMPLETED == "completed"
FAILED == "failed"

QueueFullError == "QueueFullError"

MissingInfoError == "Missing required MR information"
NoDiffError == "No diff content found"

\* Messages of the exceptions the collaborators throw.
FetchError == "GitLab API error: getMRDiff"
ReviewError == "Failed to start thread"
StatusError == "GitLab API error: postCommitStatus"
ProcessorError == "processMREvent rejected"
ChunkRejection == "reviewChunk rejected"

Unset == "unset"
NoResult == [present |-> FALSE, success |-> FALSE, error |-> Unset]

\* The two versions of review-queue.ts in the repository: the job's work is
\* either done inline through a GitLabClient or delegated to a
\* WebhookProcessor.
Variants == {"client", "processor"}

JobIds == 1..MaxEnqueues

\* Truthiness of the three payload fields processReview needs.
Payloads ==
  { [iid |-> TRUE, projectId |-> TRUE, commitSha |-> TRUE],
    [iid |-> FALSE, projectId |-> TRUE, commitSha |-> TRUE],
    [iid |-> TRUE, projectId |-> TRUE, commitSha |-> FALSE] }

\* A payload with every identifying field.
FullPayload == [iid |-> TRUE, projectId |-> TRUE, commitSha |-> TRUE]

\* Placeholder for the payload of a call that is not running.
NoPayload == [iid |-> FALSE, projectId |-> FALSE, commitSha |-> FALSE]

VARIABLES
  maxQueueSize,  \* this.maxQueueSize
  variant,       \* which version of review-queue.ts runs
  jobs,          \* this.jobs: Map<jobId, JobInfo>
  processing,    \* this.processing: Set<jobId>
  pc,            \* per job: where its processReview call is suspended
  payloadOf,     \* per job: the payload processReview was called with
                 \* (the call's locals are dropped when its timer has fired)
  nextId,        \* the next value uuidv4() returns
  enqLog,        \* what each enqueueReview call returned or threw, in order,
                 \* with the job's status at the moment the call returned
  evictions,     \* number of cleanup timers that have fired
  raised,        \* per tracked job: message of the exception its work raised
  settleCount,   \* per tracked job: number of assignments of a terminal status
  promise,       \* per job: state of the promise processReview returned
  local,         \* per job: processReview's local variable `result`
  swallowed,     \* per job: postFailureCommitStatus caught a status-sink error
  maxConcurrent, \* MultiThreadAmpReviewer.maxConcurrent
  chunks,        \* the ReviewChunk[] multiThreadReview is called with
  dpc,           \* where the multiThreadReview call is
  batches,       \* its local `batches`
  batchIdx,      \* index of the batch the for-of loop is at (0: none yet)
  call,          \* per chunk: state of the promise reviewChunk returned
  invoked,       \* per chunk: number of reviewChunk invocations
  completed,     \* the chunk ids in the order their promises settled
  mrDetails,     \* the mrDetails reviewDiff was called with
  started,       \* per chunk: reviewer instance, temp-file paths and
                 \* mrDetails of its reviewChunk call
  tmpdir,        \* the files of os.tmpdir() written by the reviewers
  uuids,         \* number of uuidv4() calls made so far
  instances,     \* number of AmpReviewer instances created for chunks
  results,       \* its local `results`: ChunkResult[]
  errors,        \* its local `errors`: ChunkError[]
  final,         \* the ReviewResult the call resolved with
  maxChunkSize,  \* DiffSplitter's this.maxChunkSize
  input,         \* the diff text reviewDiff is called with
  spc,           \* where MultiThreadAmpReviewer.reviewDiff stands
  split,         \* what splitDiff returned
  sbatch,        \* number of batches of chunks handed to reviewChunk
  sent,          \* the texts passed to AmpReviewer.reviewDiff, in call order
  single,        \* how the single reviewer's promise settled
  sret,          \* how the promise of reviewDiff settled, and with what
  wpc,           \* per job: where its WebhookProcessor.processMREvent call stands
  wret,          \* per job: the ReviewResult processMREvent resolved with
  reviewCalls,   \* per job: number of amp.reviewDiff invocations made for it
  lastResponse,  \* the response of the latest webhook request
  clientOf,      \* per job: the GitLab client the route passed to enqueueReview
  mpc,           \* where GitLabClient.makeRequest is suspended
  token,         \* this.token of the client, as the number of the token issued
  hasRefresh,    \* this.installation?.refreshToken is set
  sentLog,       \* the requests fetch was called with, and their responses
  mret,          \* how each makeRequest call ended, in call order
  fanout,        \* per job: chunks of its review not dispatched yet, calls in flight
  bpc,           \* where createBatches is: "idle", "loop" or "returned"
  bi,            \* the loop variable i of createBatches
  bout           \* the batches createBatches has pushed

qvars == << maxQueueSize, variant, jobs, processing, pc, payloadOf, nextId,
            enqLog, evictions, raised, settleCount, promise, local, swallowed >>

dvars == << maxConcurrent, chunks, dpc, batches, batchIdx, call, invoked,
            completed, results, errors, final, mrDetails, started, tmpdir,
            uuids, instances >>

\* The variables of the reviewers that multiThreadReview creates.
rvars == << started, tmpdir, uuids, instances >>

svars == << maxChunkSize, input, spc, split, sbatch, sent, single, sret >>

wvars == << wpc, wret, reviewCalls >>

hvars == << lastResponse, clientOf >>

\* The variables of one GitLabClient.
cvars == << mpc, token, hasRefresh, sentLog, mret >>

\* The review calls of each job of the processor queue.
fvars == << fanout >>

\* The loop of one createBatches call.
bvars == << bpc, bi, bout >>

vars == << qvars, dvars, svars, wvars, hvars, cvars, fvars, bvars >>

\* ------------------------------------------------------------ ReviewJobQueue

MapSet(m, k, v) == [x \in (DOMAIN m) \cup {k} |-> IF x = k THEN v ELSE m[x]]

MapDeleteWrong(m, k) == [x \in {y \in DOMAIN m : y > k} |-> m[x]]

MapDelete(m, k) == [x \in (DOMAIN m) \ {k} |-> m[x]]

NewJob(payload) ==
  [ status |-> QUEUED, created |-> TRUE, started |-> FALSE,
    completed |-> FALSE, result |-> NoResult, error |-> Unset,
    mr_iid |-> payload.iid ]

Null == [status |-> "null"]

getJobStatus(jobId) == IF jobId \in DOMAIN jobs THEN jobs[jobId] ELSE Null

\* The status a getJobStatus(id) call reads from table js.
getStatusIn(js, id) == IF id \in DOMAIN js THEN js[id].status ELSE "null"

IsFullRunningOnly(size) ==
  Cardinality({id \in DOMAIN jobs : jobs[id].status \in {QUEUED, RUNNING}}) >= maxQueueSize

IsFullOffByOne(size) == size > maxQueueSize

IsFull(size) == size >= maxQueueSize

\* job.status = RUNNING; job.started = Date.now()
MarkRunning(job) == [job EXCEPT !.status = RUNNING, !.started = TRUE]

MarkFailedNoMessage(job, msg) == [job EXCEPT !.status = FAILED]

\* job.status = FAILED; job.error = <message>
MarkFailed(job, msg) == [job EXCEPT !.status = FAILED, !.error = msg]

\* job.status = COMPLETED; job.completed = Date.now(); job.result = result
MarkCompleted(job, result) ==
  [job EXCEPT !.status = COMPLETED, !.completed = TRUE, !.result = result]

HasIidAndProject(payload) == payload.iid /\ payload.projectId

HasRequiredInfo(payload) == payload.iid /\ payload.projectId /\ payload.commitSha

\* postFailureCommitStatus posts only when commitSha && projectId.
PostsFailureStatus(payload) == payload.commitSha /\ payload.projectId

PostFailureRethrows(ext) == IF ext = "throw" THEN "thrown" ELSE "returned"

\* postFailureCommitStatus wraps its body in try/catch and only logs: whatever
\* the status sink does (ext), the call returns normally.
postFailureCommitStatus(ext) == "returned"

\* The client the queue was constructed with (server.ts: new
\* ReviewJobQueue(gitlabClient, ...)).
DefaultClient == << "default", 0 >>

\* this.gitlabClient inside postFailureCommitStatus: the client the queue was
\* constructed with.
FailureStatusClient(id) == DefaultClient

\* The GitLab calls of job id that are outstanding (client version of the
\* queue), each with the client it was made through: getMRDiff and the
\* success status post through the gitlabClient parameter of processReview,
\* the failure status post through FailureStatusClient.
GitLabCalls(id) ==
  IF id \notin DOMAIN jobs \/ variant # "client" THEN {}
  ELSE IF pc[id] = "getMRDiff" THEN {<< "getMRDiff", clientOf[id] >>}
  ELSE IF pc[id] = "postCommitStatus" THEN {<< "postCommitStatus", clientOf[id] >>}
  ELSE IF pc[id] \in {"postFailureTry", "postFailureCatch"} /\ PostsFailureStatus(payloadOf[id])
       THEN {<< "postFailureCommitStatus", FailureStatusClient(id) >>}
  ELSE {}

\* Synchronous prefix of processReview(jobId, ...), run inside enqueueReview
\* up to its first await: the resulting table, suspension point, number of
\* terminal-status assignments and membership in this.processing.
ProcessReviewStart(js, id, payload) ==
  IF id \notin DOMAIN js
  THEN [jobs |-> js, pc |-> "aborted", settles |-> 0, processing |-> FALSE]
  ELSE IF variant = "client"
       THEN IF ~HasRequiredInfo(payload)
            THEN [jobs |-> [js EXCEPT ![id] = MarkFailed(MarkRunning(js[id]), MissingInfoError)],
                  pc |-> "postFailureTry", settles |-> 1, processing |-> TRUE]
            ELSE [jobs |-> [js EXCEPT ![id] = MarkRunning(js[id])],
                  pc |-> "getMRDiff", settles |-> 0, processing |-> TRUE]
       ELSE [jobs |-> [js EXCEPT ![id] = MarkRunning(js[id])],
             pc |-> "processMREvent", settles |-> 0, processing |-> TRUE]

\* The i-th enqueueReview call returned a job id.
Accepted(i) == enqLog[i].threw = "none"

QueueFullUnnamed(max) ==
  [threw |-> QueueFullError, capacity |-> 0, jobId |-> 0, status |-> Unset]

\* throw new QueueFullError(`Review queue is full (max: ${this.maxQueueSize})`)
QueueFullThrown(max) ==
  [threw |-> QueueFullError, capacity |-> max, jobId |-> 0, status |-> Unset]

\* enqueueReview(client, payload): throws QueueFullError at capacity, else
\* records the job, starts processReview without awaiting it, returns the id.
enqueueReview(payload) ==
  /\ Len(enqLog) < MaxEnqueues
  /\ IF IsFull(Cardinality(DOMAIN jobs))
     THEN /\ enqLog' = Append(enqLog, QueueFullThrown(maxQueueSize))
          /\ UNCHANGED << dvars, svars, maxQueueSize, variant, jobs, processing, pc, payloadOf,
                          nextId, evictions, raised, settleCount, promise, local, swallowed >>
     ELSE LET id == nextId
              st == ProcessReviewStart(MapSet(jobs, id, NewJob(payload)), id, payload)
          IN /\ jobs' = st.jobs
             /\ pc' = [pc EXCEPT ![id] = st.pc]
             /\ processing' = IF st.processing THEN processing \cup {id} ELSE processing
             /\ settleCount' = [settleCount EXCEPT ![id] = st.settles]
             /\ payloadOf' = [payloadOf EXCEPT ![id] = payload]
             /\ nextId' = nextId + 1
             /\ enqLog' = Append(enqLog, [threw |-> "none", capacity |-> maxQueueSize, jobId |-> id,
                                           status |-> getStatusIn(st.jobs, id)])
             /\ UNCHANGED << dvars, svars, maxQueueSize, variant, evictions, raised, promise, local, swallowed >>

\* catch (error) { job.status = FAILED; job.error = message;
\*                 await this.postFailureCommitStatus(payload, job.error) }
CatchBlock(id, msg) ==
  /\ jobs' = [jobs EXCEPT ![id] = MarkFailed(jobs[id], msg)]
  /\ settleCount' = [settleCount EXCEPT ![id] = @ + 1]
  /\ raised' = [raised EXCEPT ![id] = msg]
  /\ pc' = [pc EXCEPT ![id] = "postFailureCatch"]

FinallyNoTimer(id, how) ==
  /\ pc' = [pc EXCEPT ![id] = "finished"]
  /\ promise' = [promise EXCEPT ![id] = how]

\* finally { setTimeout(cleanup, 60000) }, then the promise settles.
FinallyBlock(id, how) ==
  /\ pc' = [pc EXCEPT ![id] = "timer"]
  /\ promise' = [promise EXCEPT ![id] = how]

\* Continuation of processReview after `await gitlabClient.getMRDiff(...)`.
GetMRDiffSettle(id, r) ==
  /\ pc[id] = "getMRDiff"
  /\ CASE r = "diff" ->
            /\ pc' = [pc EXCEPT ![id] = "reviewDiff"]
            /\ UNCHANGED << jobs, settleCount, raised >>
       [] r = "empty" ->
            /\ jobs' = [jobs EXCEPT ![id] = MarkFailed(jobs[id], NoDiffError)]
            /\ settleCount' = [settleCount EXCEPT ![id] = @ + 1]
            /\ pc' = [pc EXCEPT ![id] = "postFailureTry"]
            /\ UNCHANGED raised
       [] r = "throw" -> CatchBlock(id, FetchError)
  /\ reviewCalls' = [reviewCalls EXCEPT ![id] = IF r = "diff" THEN @ + 1 ELSE @]
  /\ UNCHANGED << dvars, svars, wpc, wret, hvars, cvars, fvars, bvars, maxQueueSize, variant, processing, payloadOf, nextId, enqLog,
                  evictions, promise, local, swallowed >>

\* Continuation after `await reviewDiff(diffContent, mrDetails)`.
ReviewDiffSettle(id, r) ==
  /\ pc[id] = "reviewDiff"
  /\ IF r = "ok"
     THEN /\ pc' = [pc EXCEPT ![id] = "postCommitStatus"]
          /\ UNCHANGED << jobs, settleCount, raised >>
     ELSE CatchBlock(id, ReviewError)
  /\ UNCHANGED << dvars, svars, wvars, hvars, cvars, fvars, bvars, maxQueueSize, variant, processing, payloadOf, nextId, enqLog,
                  evictions, promise, local, swallowed >>

\* Continuation after `await gitlabClient.postCommitStatus(... SUCCESS ...)`.
PostCommitStatusSettle(id, r) ==
  /\ pc[id] = "postCommitStatus"
  /\ IF r = "ok"
     THEN /\ jobs' = [jobs EXCEPT ![id] =
                        MarkCompleted(jobs[id], [present |-> TRUE, success |-> TRUE, error |-> Unset])]
          /\ settleCount' = [settleCount EXCEPT ![id] = @ + 1]
          /\ FinallyBlock(id, "fulfilled")
          /\ UNCHANGED raised
     ELSE /\ CatchBlock(id, StatusError)
          /\ UNCHANGED promise
  /\ UNCHANGED << dvars, svars, wvars, hvars, cvars, fvars, bvars, maxQueueSize, variant, processing, payloadOf, nextId, enqLog,
                  evictions, local, swallowed >>

\* The ReviewResult values a WebhookProcessor hands back.
WorkResults ==
  { [present |-> TRUE, success |-> TRUE, error |-> Unset],
    [present |-> TRUE, success |-> FALSE, error |-> NoDiffError] }

\* How the promise of processMREvent settles: with a ReviewResult, or rejected.
ProcessorOutcomes ==
  { [rejected |-> FALSE, value |-> v] : v \in WorkResults }
    \cup { [rejected |-> TRUE, value |-> NoResult] }

\* Continuation after `await webhookProcessor.processMREvent(payload)`.
ProcessMREventSettle(id, o) ==
  /\ pc[id] = "processMREvent"
  /\ IF o.rejected
     THEN /\ CatchBlock(id, ProcessorError)
          /\ UNCHANGED << promise, local >>
     ELSE IF o.value.success
          THEN /\ jobs' = [jobs EXCEPT ![id] = MarkCompleted(jobs[id], o.value)]
               /\ settleCount' = [settleCount EXCEPT ![id] = @ + 1]
               /\ local' = [local EXCEPT ![id] = o.value]
               /\ FinallyBlock(id, "fulfilled")
               /\ UNCHANGED raised
          ELSE /\ jobs' = [jobs EXCEPT ![id].status = FAILED]
               /\ settleCount' = [settleCount EXCEPT ![id] = @ + 1]
               /\ local' = [local EXCEPT ![id] = o.value]
               /\ pc' = [pc EXCEPT ![id] = "postFailureTry"]
               /\ UNCHANGED << raised, promise >>
  /\ UNCHANGED << dvars, svars, wvars, hvars, cvars, fvars, bvars, maxQueueSize, variant, processing, payloadOf, nextId, enqLog,
                  evictions, swallowed >>

\* Continuation after `await this.postFailureCommitStatus(payload, error)`,
\* awaited either inside the try block (pc = "postFailureTry") or inside the
\* catch block (pc = "postFailureCatch"); ext is what the status sink did
\* ("none" when postFailureCommitStatus made no call).
PostFailureSettle(id, ext) ==
  /\ pc[id] \in {"postFailureTry", "postFailureCatch"}
  /\ ext \in (IF PostsFailureStatus(payloadOf[id]) THEN {"ok", "throw"} ELSE {"none"})
  /\ swallowed' = [swallowed EXCEPT ![id] = @ \/ (ext = "throw")]
  /\ IF postFailureCommitStatus(ext) = "returned"
     THEN /\ jobs' = IF pc[id] = "postFailureTry" /\ variant = "processor"
                     THEN [jobs EXCEPT ![id].completed = TRUE, ![id].result = local[id]]
                     ELSE jobs
          /\ FinallyBlock(id, "fulfilled")
          /\ UNCHANGED << settleCount, raised >>
     ELSE IF pc[id] = "postFailureTry"
          THEN /\ CatchBlock(id, StatusError)
               /\ UNCHANGED promise
          ELSE /\ FinallyBlock(id, "rejected")
               /\ UNCHANGED << jobs, settleCount, raised >>
  /\ UNCHANGED << dvars, svars, wvars, hvars, cvars, fvars, bvars, maxQueueSize, variant, processing, payloadOf, nextId, enqLog,
                  evictions, local >>

\* The setTimeout callback of the finally block:
\* this.jobs.delete(jobId); this.processing.delete(jobId)
CleanupTimer(id) ==
  /\ pc[id] = "timer"
  /\ jobs' = MapDelete(jobs, id)
  /\ processing' = processing \ {id}
  /\ pc' = [pc EXCEPT ![id] = "cleaned"]
  /\ evictions' = evictions + 1
  /\ payloadOf' = [payloadOf EXCEPT ![id] = NoPayload]
  /\ local' = [local EXCEPT ![id] = NoResult]
  /\ swallowed' = [swallowed EXCEPT ![id] = FALSE]
  /\ raised' = [raised EXCEPT ![id] = Unset]
  /\ settleCount' = [settleCount EXCEPT ![id] = 0]
  /\ wpc' = [wpc EXCEPT ![id] = "none"]
  /\ wret' = [wret EXCEPT ![id] = NoResult]
  /\ reviewCalls' = [reviewCalls EXCEPT ![id] = 0]
  /\ clientOf' = [clientOf EXCEPT ![id] = DefaultClient]
  /\ UNCHANGED << dvars, svars, lastResponse, cvars, fvars, bvars, maxQueueSize, variant, nextId,
                  enqLog, promise >>

CountStatusAtEnqueue(st) ==
  Cardinality({i \in 1..Len(enqLog) : Accepted(i) /\ enqLog[i].status = st})

\* getQueueStats(): counts recomputed from this.jobs at every call.
CountStatus(st) == Cardinality({id \in DOMAIN jobs : jobs[id].status = st})

getQueueStats ==
  [ total |-> Cardinality(DOMAIN jobs),
    queued |-> CountStatus(QUEUED),
    running |-> CountStatus(RUNNING),
    completed |-> CountStatus(COMPLETED),
    failed |-> CountStatus(FAILED),
    maxSize |-> maxQueueSize ]

\* ---------------------------------------------------- MultiThreadAmpReviewer

Min(a, b) == IF a <= b THEN a ELSE b

\* items.slice(from, to) with 0-based, end-exclusive indices.
Slice(items, from, to) == SubSeq(items, from + 1, Min(to, Len(items)))

RECURSIVE BatchesFrom(_, _, _)
\* for (let i = start; i < items.length; i += batchSize)
\*   batches.push(items.slice(i, i + batchSize))
BatchesFrom(items, batchSize, i) ==
  IF i < Len(items)
  THEN << Slice(items, i, i + batchSize) >> \o BatchesFrom(items, batchSize, i + batchSize)
  ELSE << >>

RECURSIVE FullBatchesFrom(_, _, _)
FullBatchesFrom(items, batchSize, i) ==
  IF i + batchSize <= Len(items)
  THEN << Slice(items, i, i + batchSize) >> \o FullBatchesFrom(items, batchSize, i + batchSize)
  ELSE << >>

createBatchesDropRemainder(items, batchSize) == FullBatchesFrom(items, batchSize, 0)

createBatchesOneMore(items, batchSize) == BatchesFrom(items, batchSize + 1, 0)

createBatches(items, batchSize) == BatchesFrom(items, batchSize, 0)

\* this.createBatches(chunks, this.maxConcurrent) is called.
CreateBatchesCall ==
  /\ bpc = "idle"
  /\ bpc' = "loop"
  /\ bi' = 0
  /\ bout' = << >>
  /\ UNCHANGED << qvars, dvars, svars, wvars, hvars, cvars, fvars >>

\* One test of `i < items.length` in createBatches and, when it holds, one
\* pass through the loop body: push items.slice(i, i + batchSize) and add
\* batchSize to i.  bout records the first MaxChunks + 1 batches pushed, more
\* than a list of MaxChunks items has; a pass that finds bout full and leaves
\* i where it was leaves the state as it is, and the loop is in its next pass.
CreateBatchesLoop ==
  /\ bpc = "loop"
  /\ IF bi < Len(chunks)
     THEN /\ bout' = IF Len(bout) <= MaxChunks
                     THEN Append(bout, Slice(chunks, bi, bi + maxConcurrent))
                     ELSE bout
          /\ bi' = bi + maxConcurrent
          /\ UNCHANGED bpc
     ELSE /\ bpc' = "returned"
          /\ UNCHANGED << bi, bout >>
  /\ UNCHANGED << qvars, dvars, svars, wvars, hvars, cvars, fvars >>

\* How the promise of one reviewChunk call settles: fulfilled with a
\* ReviewResult whose success is true ("ok") or false ("failed": AmpReviewer
\* caught the command's error or timeout), or rejected.
ChunkOutcomes == {"ok", "failed", "rejected"}

Fulfilled(c) == call[c] \in {"ok", "failed"}

Settled(c) == call[c] \in ChunkOutcomes

Outstanding == {c \in DOMAIN call : call[c] = "inflight"}

AnySettled(batch) == \E i \in 1..Len(batch) : Settled(batch[i].chunk_id)

\* Promise.allSettled(batchPromises) resolves when every promise has settled.
AllSettled(batch) == \A i \in 1..Len(batch) : Settled(batch[i].chunk_id)

InBatch(batch, c) == \E i \in 1..Len(batch) : batch[i].chunk_id = c

Occurrences(batch, c) == Cardinality({i \in 1..Len(batch) : batch[i].chunk_id = c})

\* What AmpReviewer.reviewDiff resolves with: after the command ran, success
\* with the review text, the issues extracted from it (structured_issues) and
\* one issue that carries the whole text; from its catch block, success false
\* with the error's message and neither text nor issues.
ReviewResultOf(outcome) ==
  IF outcome = "ok"
  THEN [success |-> TRUE, error |-> Unset, issues |-> 1, structured_issues |-> 2,
        final_review |-> TRUE]
  ELSE [success |-> FALSE, error |-> ReviewError, issues |-> 0, structured_issues |-> 0,
        final_review |-> FALSE]

ChunkResultOf(chunk) ==
  [ chunk_id |-> chunk.chunk_id, files |-> chunk.files,
    result |-> ReviewResultOf(call[chunk.chunk_id]) ]

ChunkErrorOf(chunk) ==
  [ chunk_id |-> chunk.chunk_id, files |-> chunk.files, error |-> ChunkRejection ]

Reversed(batch) == [i \in 1..Len(batch) |-> batch[Len(batch) + 1 - i]]

FulfilledInReverse(batch) ==
  LET sel == SelectSeq(Reversed(batch), LAMBDA ch : Fulfilled(ch.chunk_id))
  IN [i \in 1..Len(sel) |-> ChunkResultOf(sel[i])]

\* batchResults.forEach: fulfilled -> results.push, rejected -> errors.push
FulfilledOf(batch) ==
  LET sel == SelectSeq(batch, LAMBDA ch : Fulfilled(ch.chunk_id))
  IN [i \in 1..Len(sel) |-> ChunkResultOf(sel[i])]

RejectedOf(batch) ==
  LET sel == SelectSeq(batch, LAMBDA ch : ~Fulfilled(ch.chunk_id))
  IN [i \in 1..Len(sel) |-> ChunkErrorOf(sel[i])]

NoFinal == [returned |-> FALSE, success |-> FALSE, error |-> Unset, issues |-> 0,
            final_review |-> FALSE, note |-> FALSE, stats |-> FALSE,
            total_files_reviewed |-> 0, chunks_processed |-> 0,
            chunks_failed |-> 0, total_issues |-> 0, partial_failures |-> << >>]

RECURSIVE FilesOf(_)
\* results.reduce((sum, r) => sum + r.files.length, 0)
FilesOf(res) ==
  IF Len(res) = 0 THEN 0 ELSE Len(Head(res).files) + FilesOf(Tail(res))

RECURSIVE StructuredOf(_)
\* allStructuredIssues: result.structured_issues of every collected result.
StructuredOf(res) ==
  IF Len(res) = 0 THEN 0 ELSE Head(res).result.structured_issues + StructuredOf(Tail(res))

RECURSIVE IssuesOf(_)
\* allIssues: result.issues of every collected result with success true.
IssuesOf(res) ==
  IF Len(res) = 0 THEN 0
  ELSE (IF Head(res).result.success THEN Head(res).result.issues ELSE 0)
       + IssuesOf(Tail(res))

\* finalReviewParts.length > 0
HasReviewParts(res) == \E i \in 1..Len(res) : res[i].result.final_review

\* aggregateResults(results, errors, mrDetails): `issues` is the number of
\* issues returned, `final_review` whether a review text is returned, `note`
\* whether the text ends with the "could not be processed" note, `stats`
\* whether the result has summary stats; an absent partial_failures is the
\* empty list.
aggregateResults(res, errs) ==
  IF Len(errs) > 0 /\ Len(res) = 0
  THEN [returned |-> TRUE, success |-> FALSE, error |-> "All chunks failed",
        issues |-> 0, final_review |-> FALSE, note |-> FALSE, stats |-> TRUE,
        total_files_reviewed |-> FilesOf(res),
        chunks_processed |-> Len(res), chunks_failed |-> Len(errs),
        total_issues |-> StructuredOf(res), partial_failures |-> << >>]
  ELSE [returned |-> TRUE, success |-> TRUE, error |-> Unset,
        issues |-> IssuesOf(res), final_review |-> HasReviewParts(res),
        note |-> HasReviewParts(res) /\ Len(errs) > 0, stats |-> TRUE,
        total_files_reviewed |-> FilesOf(res),
        chunks_processed |-> Len(res), chunks_failed |-> Len(errs),
        total_issues |-> StructuredOf(res), partial_failures |-> errs]

\* The MR a review is made for; only mr_iid is ever computed with.
MrDetailsOf(iid) ==
  [project_id |-> "project", mr_iid |-> iid, commit_sha |-> "sha", mr_url |-> "url"]

NoDetails == MrDetailsOf(0)

\* The MR iids of the reviews looked at.
MrIids == {7, 10007}

\* No reviewChunk call has been made for the chunk.
NotStarted ==
  [reviewer |-> 0, prompt |-> << "none", 0 >>, result |-> << "none", 0 >>,
   settings |-> << "none", 0 >>, mr |-> NoDetails]

UuidOfProcess(n) == 1

\* uuidv4(): the n-th identifier generated differs from all earlier ones.
Uuid(n) == n

\* { ...mrDetails, mr_iid: mrDetails.mr_iid + (chunk.chunk_id * 10000) }
chunkMrDetails(details, chunk) ==
  [details EXCEPT !.mr_iid = @ + (chunk.chunk_id * 10000)]

\* reviewChunk(chunk, mrDetails) up to the await inside
\* chunkReviewer.reviewDiff, as the k-th call of a batch: a new AmpReviewer,
\* three file names from three uuidv4() calls.
ReviewChunkCall(chunk, k) ==
  [reviewer |-> instances + k,
   prompt |-> << "amp-prompt", Uuid(uuids + 3 * (k - 1) + 1) >>,
   result |-> << "amp-result", Uuid(uuids + 3 * (k - 1) + 2) >>,
   settings |-> << "amp-settings", Uuid(uuids + 3 * (k - 1) + 3) >>,
   mr |-> chunkMrDetails(mrDetails, chunk)]

\* Position of chunk c in the batch.
PosIn(batch, c) == CHOOSE k \in 1..Len(batch) : batch[k].chunk_id = c

\* The three temp files of a call, which its finally block unlinks.
PathsOf(st) == {st.prompt, st.result, st.settings}

\* writeFileSync(promptFilePath, ...) and writeFileSync(settingsFilePath, ...)
\* run before the command is awaited; the result file is the command's.
WrittenBy(st) == {st.prompt, st.settings}

\* batch.map(chunk => this.reviewChunk(chunk, mrDetails)): every call of the
\* batch is started, in order, before the await.
StartBatch(batch) ==
  /\ call' = [c \in DOMAIN call |-> IF InBatch(batch, c) THEN "inflight" ELSE call[c]]
  /\ invoked' = [c \in DOMAIN invoked |-> invoked[c] + Occurrences(batch, c)]
  /\ started' = [c \in DOMAIN started |->
                   IF InBatch(batch, c)
                   THEN ReviewChunkCall(chunks[c + 1], PosIn(batch, c))
                   ELSE started[c]]
  /\ tmpdir' = tmpdir \cup UNION {WrittenBy(started'[c]) : c \in {d \in DOMAIN call : InBatch(batch, d)}}
  /\ uuids' = uuids + 3 * Len(batch)
  /\ instances' = instances + Len(batch)

\* multiThreadReview(chunks, mrDetails) from its entry to its first await.
MultiThreadReviewStart ==
  /\ dpc = "idle"
  /\ LET bs == createBatches(chunks, maxConcurrent)
     IN /\ batches' = bs
        /\ IF Len(bs) = 0
           THEN /\ final' = aggregateResults(results, errors)
                /\ dpc' = "returned"
                /\ UNCHANGED << batchIdx, call, invoked, rvars >>
           ELSE /\ batchIdx' = 1
                /\ StartBatch(bs[1])
                /\ dpc' = "awaiting"
                /\ UNCHANGED final
  /\ UNCHANGED << qvars, svars, wvars, hvars, cvars, fvars, bvars, maxConcurrent, chunks, completed, results, errors,
                  mrDetails >>

\* The promise of one outstanding reviewChunk call settles: the finally block
\* of its reviewDiff has unlinked those of its three files that exist.
ChunkSettle(c, outcome) ==
  /\ c \in DOMAIN call
  /\ call[c] = "inflight"
  /\ call' = [call EXCEPT ![c] = outcome]
  /\ completed' = Append(completed, c)
  /\ tmpdir' = tmpdir \ PathsOf(started[c])
  /\ UNCHANGED << qvars, svars, wvars, hvars, cvars, fvars, bvars, maxConcurrent, chunks, dpc, batches, batchIdx, invoked,
                  results, errors, final, mrDetails, started, uuids, instances >>

\* Continuation of multiThreadReview after `await Promise.allSettled(...)`:
\* collect the batch, then start the next batch or aggregate and return.
BatchSettled ==
  /\ dpc = "awaiting"
  /\ AllSettled(batches[batchIdx])
  /\ LET res == results \o FulfilledOf(batches[batchIdx])
         errs == errors \o RejectedOf(batches[batchIdx])
     IN /\ results' = res
        /\ errors' = errs
        /\ IF batchIdx < Len(batches)
           THEN /\ batchIdx' = batchIdx + 1
                /\ StartBatch(batches[batchIdx + 1])
                /\ UNCHANGED << dpc, final >>
           ELSE /\ final' = aggregateResults(res, errs)
                /\ dpc' = "returned"
                /\ UNCHANGED << batchIdx, call, invoked, rvars >>
  /\ UNCHANGED << qvars, svars, wvars, hvars, cvars, fvars, bvars, maxConcurrent, chunks, batches, completed, mrDetails >>

ChunkDone == \E c \in DOMAIN call, outcome \in ChunkOutcomes : ChunkSettle(c, outcome)

\* -------------------------------------------------------------- DiffSplitter

\* Destination paths named by the file headers of a diff.
Paths == {"a", "bb", "c"}

\* Lengths of the lines of a diff that are not file headers.
BodyLens == {0, 12}

\* Values the splitter's maxChunkSize is configured with.
MaxChunkSizes == {20, 36, 38}

\* A line `diff --git a/<p> b/<p>`: matched by the header regex, group 2 = p.
HeaderLine(p) == [path |-> p, len |-> 16 + 2 * Len(p)]

\* Any other line, of n characters.
BodyLine(n) == [path |-> "", len |-> n]

Lines == {HeaderLine(p) : p \in Paths} \cup {BodyLine(n) : n \in BodyLens}

\* A text is the sequence of its lines: text.split('\n') and lines.join('\n')
\* are inverse to each other, and a + '\n' + b is the concatenation a \o b.
Texts == UNION {[1..n -> Lines] : n \in 1..MaxLines}

RECURSIVE SumLen(_)
SumLen(lines) == IF Len(lines) = 0 THEN 0 ELSE Head(lines).len + SumLen(Tail(lines))

\* text.length: the characters of the lines and one '\n' between two lines.
TextLen(lines) == IF Len(lines) = 0 THEN 0 ELSE SumLen(lines) + Len(lines) - 1

\* line.match(/^diff --git a\/(.+?) b\/(.+?)$/)
IsHeader(line) == line.path # ""

NewFileDiff(path, lines) ==
  [file_path |-> path, diff_content |-> lines, char_count |-> TextLen(lines)]

SaveFileUnnamed(fileDiffs, curPath, curLines) ==
  IF Len(curLines) > 0
  THEN Append(fileDiffs, NewFileDiff(curPath, curLines))
  ELSE fileDiffs

\* if (currentFilePath && currentFileLines.length > 0) fileDiffs.push(...)
SaveFile(fileDiffs, curPath, curLines) ==
  IF curPath # "" /\ Len(curLines) > 0
  THEN Append(fileDiffs, NewFileDiff(curPath, curLines))
  ELSE fileDiffs

RECURSIVE ParseFrom(_, _, _, _, _)
\* The loop of parseFileDiffs from line i on; currentFilePath null is "".
ParseFrom(lines, i, curPath, curLines, fileDiffs) ==
  IF i > Len(lines)
  THEN SaveFile(fileDiffs, curPath, curLines)
  ELSE IF IsHeader(lines[i])
       THEN ParseFrom(lines, i + 1, lines[i].path, << lines[i] >>,
                      SaveFile(fileDiffs, curPath, curLines))
       ELSE ParseFrom(lines, i + 1, curPath, Append(curLines, lines[i]), fileDiffs)

parseFileDiffs(diffContent) == ParseFrom(diffContent, 1, "", << >>, << >>)

RECURSIVE InsertDesc(_, _)
\* Place f behind every element that is not smaller: equal sizes keep the
\* order in which they are inserted.
InsertDesc(sorted, f) ==
  IF Len(sorted) = 0 THEN << f >>
  ELSE IF Head(sorted).char_count >= f.char_count
       THEN << Head(sorted) >> \o InsertDesc(Tail(sorted), f)
       ELSE << f >> \o sorted

RECURSIVE SortFrom(_, _, _)
SortFrom(fileDiffs, i, sorted) ==
  IF i > Len(fileDiffs) THEN sorted
  ELSE SortFrom(fileDiffs, i + 1, InsertDesc(sorted, fileDiffs[i]))

\* [...fileDiffs].sort((a, b) => b.char_count - a.char_count): stable.
sortedFiles(fileDiffs) == SortFrom(fileDiffs, 1, << >>)

NeverTooLarge(char_count) == FALSE

\* char_count > this.maxChunkSize
TooLarge(char_count) == char_count > maxChunkSize

LastFit(chs, char_count) ==
  LET fits == {k \in 1..Len(chs) : chs[k].total_chars + char_count <= maxChunkSize}
  IN IF fits = {} THEN 0 ELSE CHOOSE k \in fits : \A j \in fits : k >= j

\* The first chunk, in creation order, the file fits in; 0 if there is none.
FirstFit(chs, char_count) ==
  LET fits == {k \in 1..Len(chs) : chs[k].total_chars + char_count <= maxChunkSize}
  IN IF fits = {} THEN 0 ELSE CHOOSE k \in fits : \A j \in fits : k <= j

AddToChunkContentLost(chunk, f) ==
  [chunk EXCEPT !.files = Append(@, f.file_path),
                !.total_chars = @ + f.char_count]

\* chunk.files.push(file_path); chunk.total_chars += char_count;
\* chunk.diff_content += '\n' + diff_content
AddToChunk(chunk, f) ==
  [chunk EXCEPT !.files = Append(@, f.file_path),
                !.total_chars = @ + f.char_count,
                !.diff_content = @ \o f.diff_content]

NewChunk(chs, f) ==
  [chunk_id |-> Len(chs), files |-> << f.file_path >>,
   total_chars |-> f.char_count, diff_content |-> f.diff_content]

RECURSIVE PackFrom(_, _, _)
\* for (const fileDiff of sortedFiles) { ... } from the i-th file on.
PackFrom(sorted, i, chs) ==
  IF i > Len(sorted) THEN chs
  ELSE LET f == sorted[i]
           k == FirstFit(chs, f.char_count)
       IN IF TooLarge(f.char_count) THEN PackFrom(sorted, i + 1, chs)
          ELSE IF k > 0
               THEN PackFrom(sorted, i + 1, [chs EXCEPT ![k] = AddToChunk(@, f)])
               ELSE PackFrom(sorted, i + 1, Append(chs, NewChunk(chs, f)))

groupFirstChunkOnly(fileDiffs) ==
  SubSeq(PackFrom(sortedFiles(fileDiffs), 1, << >>), 1, 1)

groupFilesIntoChunks(fileDiffs) == PackFrom(sortedFiles(fileDiffs), 1, << >>)

\* The single chunk of the fast path and of the no-file-header fallback.
WholeTextChunk(text) ==
  << [chunk_id |-> 0, files |-> << >>, total_chars |-> TextLen(text),
      diff_content |-> text] >>

FitsStrictly(text) == TextLen(text) < maxChunkSize

\* fullDiffContent.length <= this.maxChunkSize
FitsInOneChunk(text) == TextLen(text) <= maxChunkSize

splitDiff(fullDiffContent) ==
  IF FitsInOneChunk(fullDiffContent) THEN WholeTextChunk(fullDiffContent)
  ELSE LET fileDiffs == parseFileDiffs(fullDiffContent)
       IN IF Len(fileDiffs) = 0 THEN WholeTextChunk(fullDiffContent)
          ELSE groupFilesIntoChunks(fileDiffs)

\* reviewChunk(chunk, mrDetails) for every chunk of a batch: each call passes
\* chunk.diff_content to a new AmpReviewer.
TextsOf(batch) == [i \in 1..Len(batch) |-> batch[i].diff_content]

\* MultiThreadAmpReviewer.reviewDiff(diffContent, mrDetails) up to its first
\* await: split, then the single reviewer on the whole text if there is at
\* most one chunk, else multiThreadReview up to the dispatch of batch 1.
ReviewDiffCall ==
  /\ spc = "idle"
  /\ LET chs == splitDiff(input)
     IN /\ split' = chs
        /\ IF Len(chs) <= 1
           THEN /\ sent' = << input >>
                /\ sbatch' = 0
                /\ spc' = "single"
           ELSE /\ sent' = TextsOf(createBatches(chs, maxConcurrent)[1])
                /\ sbatch' = 1
                /\ spc' = "multi"
  /\ UNCHANGED << qvars, dvars, wvars, hvars, cvars, fvars, bvars, maxChunkSize, input, single, sret >>

\* multiThreadReview after a batch has settled: the next batch is dispatched.
NextBatchCall ==
  /\ spc = "multi"
  /\ sbatch < Len(createBatches(split, maxConcurrent))
  /\ sent' = sent \o TextsOf(createBatches(split, maxConcurrent)[sbatch + 1])
  /\ sbatch' = sbatch + 1
  /\ UNCHANGED << qvars, dvars, wvars, hvars, cvars, fvars, bvars, maxChunkSize, input, spc, split, single, sret >>

AsOneChunkAggregate(r) ==
  aggregateResults(<< [chunk_id |-> 0, files |-> << >>, result |-> r] >>, << >>)

\* A ReviewResult of AmpReviewer as the object it is: no stats, no
\* partial_failures.
AsReturned(r) ==
  [NoFinal EXCEPT !.returned = TRUE, !.success = r.success, !.error = r.error,
                  !.issues = r.issues, !.final_review = r.final_review,
                  !.total_issues = r.structured_issues]

\* Nothing has settled yet.
Pending == [how |-> "pending", value |-> NoFinal]

\* `return this.singleReviewer.reviewDiff(diffContent, mrDetails)`: the
\* promise of reviewDiff settles as the single reviewer's promise does.
SingleReviewSettle(outcome) ==
  /\ spc = "single"
  /\ single' = outcome
  /\ sret' = IF outcome = "rejected"
             THEN [how |-> "rejected", value |-> NoFinal]
             ELSE [how |-> "fulfilled", value |-> AsReturned(ReviewResultOf(outcome))]
  /\ spc' = "settled"
  /\ UNCHANGED << qvars, dvars, wvars, hvars, cvars, fvars, bvars, maxChunkSize, input, split, sbatch, sent >>

\* A splitter and reviewer on which reviewDiff has not been called.
SplitterInit(size, text) ==
  /\ maxChunkSize = size
  /\ input = text
  /\ spc = "idle"
  /\ split = << >>
  /\ sbatch = 0
  /\ sent = << >>
  /\ single = "unstarted"
  /\ sret = Pending

\* ---------------------------------------------------------- WebhookProcessor

\* { success: false, error }
Failure(msg) == [present |-> TRUE, success |-> FALSE, error |-> msg]

\* processMREvent(payload), called by processReview (processor version)
\* inside enqueueReview, from its entry to its first await or its return.
ProcessMREventStart(id, payload) ==
  IF variant = "processor" /\ id \in DOMAIN jobs'
  THEN IF ~HasRequiredInfo(payload)
       THEN /\ wpc' = [wpc EXCEPT ![id] = "returned"]
            /\ wret' = [wret EXCEPT ![id] = Failure(MissingInfoError)]
            /\ UNCHANGED reviewCalls
       ELSE /\ wpc' = [wpc EXCEPT ![id] = "getMRDiff"]
            /\ UNCHANGED << wret, reviewCalls >>
  ELSE UNCHANGED wvars

\* Continuation of processMREvent after the promise it awaits has settled
\* with r: the diff fetch ("diff", "empty", "throw"), amp.reviewDiff ("ok",
\* "failed": success false, "throw"), or one of the two status posts, whose
\* exceptions are caught and logged.  The outer catch turns every other
\* exception into a returned failure.
ProcessMREventStep(id, r) ==
  /\ CASE wpc[id] = "getMRDiff" /\ r = "diff" ->
            /\ wpc' = [wpc EXCEPT ![id] = "reviewDiff"]
            /\ reviewCalls' = [reviewCalls EXCEPT ![id] = @ + 1]
            /\ UNCHANGED wret
       [] wpc[id] = "getMRDiff" /\ r \in {"empty", "throw"} ->
            /\ wpc' = [wpc EXCEPT ![id] = "returned"]
            /\ wret' = [wret EXCEPT ![id] =
                          Failure(IF r = "empty" THEN NoDiffError ELSE FetchError)]
            /\ UNCHANGED reviewCalls
       [] wpc[id] = "reviewDiff" /\ r = "ok" ->
            /\ wpc' = [wpc EXCEPT ![id] = "postFinal"]
            /\ wret' = [wret EXCEPT ![id] =
                          [present |-> TRUE, success |-> TRUE, error |-> Unset]]
            /\ UNCHANGED reviewCalls
       [] wpc[id] = "reviewDiff" /\ r \in {"failed", "throw"} ->
            /\ wpc' = [wpc EXCEPT ![id] = IF r = "failed" THEN "postFailed" ELSE "returned"]
            /\ wret' = [wret EXCEPT ![id] = Failure(ReviewError)]
            /\ UNCHANGED reviewCalls
       [] wpc[id] \in {"postFailed", "postFinal"} /\ r \in {"ok", "throw"} ->
            /\ wpc' = [wpc EXCEPT ![id] = "returned"]
            /\ UNCHANGED << wret, reviewCalls >>
       [] OTHER -> FALSE
  /\ UNCHANGED << qvars, dvars, svars, hvars, cvars, bvars >>

\* processMREvent with amp.reviewDiff taken as one call.
ProcessMREventResume(id, r) == ProcessMREventStep(id, r) /\ UNCHANGED fvars

\* No chunk waits and no review call is in flight.
NoCalls == [left |-> 0, inflight |-> 0]

WholeList(n) == n

\* The size of the next batch createBatches cut from n chunks:
\* items.slice(i, i + batchSize).
BatchSize(n) == Min(n, maxConcurrent)

\* amp.reviewDiff on a diff that splits into n chunks, up to its first await:
\* one call of the single reviewer when n <= 1, else the calls of the first
\* batch.
Dispatch(n) ==
  IF n <= 1 THEN [left |-> 0, inflight |-> 1]
  ELSE [left |-> n - BatchSize(n), inflight |-> BatchSize(n)]

\* processMREvent with the review calls of amp.reviewDiff followed one by
\* one: the review starts when the diff has arrived and its promise settles
\* when no chunk waits and no call is in flight.
ProcessMREventFanOut(id, r) ==
  /\ ProcessMREventStep(id, r)
  /\ IF wpc[id] = "getMRDiff" /\ r = "diff"
     THEN \E n \in 0..MaxChunks : fanout' = [fanout EXCEPT ![id] = Dispatch(n)]
     ELSE /\ wpc[id] = "reviewDiff" => fanout[id] = NoCalls
          /\ UNCHANGED fanout

\* One review call of job id settles, either way.
ReviewCallSettle(id) ==
  /\ fanout[id].inflight > 0
  /\ fanout' = [fanout EXCEPT ![id].inflight = @ - 1]
  /\ UNCHANGED << qvars, dvars, svars, wvars, hvars, cvars, bvars >>

\* Continuation of multiThreadReview after Promise.allSettled of a batch,
\* with chunks left: the calls of the next batch.
NextBatch(id) ==
  /\ fanout[id].inflight = 0
  /\ fanout[id].left > 0
  /\ fanout' = [fanout EXCEPT ![id] = [left |-> @.left - BatchSize(@.left),
                                        inflight |-> BatchSize(@.left)]]
  /\ UNCHANGED << qvars, dvars, svars, wvars, hvars, cvars, bvars >>

\* ------------------------------------------------------------ webhook route

\* config.queue.retry_after_seconds, whatever number it holds.
RetryAfterSeconds == "retry_after_seconds"

\* c.json(body, code), with the job id and the retry_after of the body.
Respond(code, jobId, retry) == [code |-> code, jobId |-> jobId, retry_after |-> retry]

\* No webhook request has been answered yet.
NoResponse == Respond(0, 0, Unset)

\* The requests the route receives: the event's kind and action, its payload,
\* and what goes wrong while it is handled ("json": the body does not parse,
\* "null": the body is null, "lookup": the installation store throws,
\* "noqueue": no review queue was registered).
WebhookEvents ==
  [ kind : {"merge_request"}, action : {"open"}, fault : {"none"}, payload : Payloads,
    installation : {FALSE} ]
  \cup [ kind : {"merge_request"}, action : {"open"}, fault : {"none"},
         payload : {FullPayload}, installation : {TRUE} ]
  \cup [ kind : {"merge_request"}, action : {"reopen", "update", "close"},
         fault : {"none"}, payload : {FullPayload}, installation : {FALSE} ]
  \cup [ kind : {"push"}, action : {"open"}, fault : {"none"}, payload : {FullPayload},
         installation : {FALSE} ]
  \cup [ kind : {"merge_request"}, action : {"update"},
         fault : {"json", "null", "lookup", "noqueue"}, payload : {FullPayload},
         installation : {FALSE} ]

\* new GitLabClient(installationConfig, installation, oauthService,
\* installationStore): a client of its own for the request that became job n.
InstallationClient(n) == << "installation", n >>

\* clientToUse: the default client unless the store has an installation for
\* the project.
ClientToUse(ev, n) == IF ev.installation THEN InstallationClient(n) ELSE DefaultClient

RelevantAnyAction(ev) == ev.kind = "merge_request"

\* object_kind === 'merge_request' and action one of open, reopen, update
Relevant(ev) == ev.kind = "merge_request" /\ ev.action \in {"open", "reopen", "update"}

\* The handler throws before it reaches enqueueReview.
ThrowsBeforeEnqueue(ev) ==
  \/ ev.fault = "json"
  \/ ev.fault \in {"lookup", "noqueue"} /\ ev.fault # "null" /\ Relevant(ev)

EnqueueAnswerGeneric(e) ==
  IF e.threw = "none" THEN Respond(202, e.jobId, Unset) ELSE Respond(500, 0, Unset)

\* The answer after enqueueReview returned a job id or threw (entry e of the
\* log): 202 with the id; the catch block answers 503 with retry_after for a
\* QueueFullError and 500 for anything else.
EnqueueAnswer(e) ==
  IF e.threw = "none" THEN Respond(202, e.jobId, Unset)
  ELSE IF e.threw = QueueFullError THEN Respond(503, 0, RetryAfterSeconds)
  ELSE Respond(500, 0, Unset)

\* POST /webhook, whole handler.  Its two awaits (the body, the installation
\* lookup) come before it touches the queue, and nothing is awaited between
\* enqueueReview and the answer.
WebhookPost(ev) ==
  /\ IF ThrowsBeforeEnqueue(ev) \/ ev.fault = "null" \/ ~Relevant(ev)
     THEN /\ lastResponse' = IF ev.fault = "json" THEN Respond(500, 0, Unset)
                             ELSE IF ev.fault = "null" THEN Respond(400, 0, Unset)
                             ELSE IF ~Relevant(ev) THEN Respond(200, 0, Unset)
                             ELSE Respond(500, 0, Unset)
          /\ UNCHANGED << qvars, dvars, svars, clientOf >>
     ELSE /\ enqueueReview(ev.payload)
          /\ lastResponse' = EnqueueAnswer(enqLog'[Len(enqLog')])
          /\ clientOf' = IF enqLog'[Len(enqLog')].threw = "none"
                         THEN [clientOf EXCEPT ![enqLog'[Len(enqLog')].jobId] =
                                 ClientToUse(ev, enqLog'[Len(enqLog')].jobId)]
                         ELSE clientOf
  /\ UNCHANGED << wvars, cvars, fvars, bvars >>


\* --------------------------------------------------------------- GitLabClient

\* HTTP statuses a request is answered with.
Statuses == {"200", "401", "500"}

\* The call of makeRequest that is running, or that starts next.
CurrentCall == Len(mret) + 1

\* fetch(url, options) with the Authorization header of token t.
Send(t) == Append(sentLog, [call |-> CurrentCall, token |-> t, status |-> "pending"])

\* The response (a status, or "error" when fetch rejects) of the latest request.
Answered(r) == [sentLog EXCEPT ![Len(sentLog)].status = r]

Returned(status) == [how |-> "returned", status |-> status, error |-> Unset]

Thrown(msg) == [how |-> "thrown", status |-> "none", error |-> msg]

RetriesAnyStatus(status) == hasRefresh

\* response.status === 401 && retryOnAuth && this.installation?.refreshToken
\* (no caller passes retryOnAuth).
ShouldRetry(status) == status = "401" /\ hasRefresh

\* makeRequest(url, options) up to `await fetch(url, options)`; the caller
\* built options.headers from this.headers.
MakeRequestCall ==
  /\ mpc = "idle"
  /\ Len(mret) < MaxRequests
  /\ sentLog' = Send(token)
  /\ mpc' = "fetch"
  /\ UNCHANGED << qvars, dvars, svars, wvars, hvars, fvars, bvars, token, hasRefresh, mret >>

\* Continuation after the first fetch: return the response, or on 401 with a
\* refresh token call refreshTokenIfNeeded, which awaits
\* oauthService.refreshToken.
FirstFetchSettle(r) ==
  /\ mpc = "fetch"
  /\ sentLog' = Answered(r)
  /\ IF r = "error"
     THEN mpc' = "idle" /\ mret' = Append(mret, Thrown("fetch failed"))
     ELSE IF ShouldRetry(r)
          THEN mpc' = "refreshToken" /\ UNCHANGED mret
          ELSE mpc' = "idle" /\ mret' = Append(mret, Returned(r))
  /\ UNCHANGED << qvars, dvars, svars, wvars, hvars, fvars, bvars, token, hasRefresh >>

\* refreshTokenIfNeeded after oauthService.refreshToken settled: on success
\* it awaits installationStore.updateInstallation; its catch block throws
\* 'Failed to refresh expired token', which makeRequest does not catch.
RefreshSettle(ok) ==
  /\ mpc = "refreshToken"
  /\ IF ok
     THEN mpc' = "updateInstallation" /\ UNCHANGED mret
     ELSE mpc' = "idle" /\ mret' = Append(mret, Thrown("Failed to refresh expired token"))
  /\ UNCHANGED << qvars, dvars, svars, wvars, hvars, fvars, bvars, token, hasRefresh, sentLog >>

\* refreshTokenIfNeeded after updateInstallation settled: this.token becomes
\* the new access token, and makeRequest sends the request again with it.
UpdateSettle(ok) ==
  /\ mpc = "updateInstallation"
  /\ IF ok
     THEN /\ token' = token + 1
          /\ sentLog' = Send(token')
          /\ mpc' = "retry"
          /\ UNCHANGED mret
     ELSE /\ mpc' = "idle"
          /\ mret' = Append(mret, Thrown("Failed to refresh expired token"))
          /\ UNCHANGED << token, sentLog >>
  /\ UNCHANGED << qvars, dvars, svars, wvars, hvars, fvars, bvars, hasRefresh >>

\* `return await fetch(url, updatedOptions)`: whatever the second response is.
RetrySettle(r) ==
  /\ mpc = "retry"
  /\ sentLog' = Answered(r)
  /\ mpc' = "idle"
  /\ mret' = Append(mret, IF r = "error" THEN Thrown("fetch failed") ELSE Returned(r))
  /\ UNCHANGED << qvars, dvars, svars, wvars, hvars, fvars, bvars, token, hasRefresh >>

\* A client created without installation, on which no request has been made.
ClientInit ==
  /\ mpc = "idle"
  /\ token = 1
  /\ sentLog = << >>
  /\ mret = << >>

\* A queue on which nothing has been enqueued.
QueueInit ==
  /\ jobs = << >>
  /\ processing = {}
  /\ pc = [id \in JobIds |-> "none"]
  /\ payloadOf = [id \in JobIds |-> NoPayload]
  /\ nextId = 1
  /\ enqLog = << >>
  /\ evictions = 0
  /\ raised = [id \in JobIds |-> Unset]
  /\ settleCount = [id \in JobIds |-> 0]
  /\ promise = [id \in JobIds |-> "pending"]
  /\ local = [id \in JobIds |-> NoResult]
  /\ swallowed = [id \in JobIds |-> FALSE]
  /\ wpc = [id \in JobIds |-> "none"]
  /\ wret = [id \in JobIds |-> NoResult]
  /\ reviewCalls = [id \in JobIds |-> 0]
  /\ lastResponse = NoResponse
  /\ clientOf = [id \in JobIds |-> DefaultClient]
  /\ fanout = [id \in JobIds |-> NoCalls]
  /\ bpc = "idle"
  /\ bi = 0
  /\ bout = << >>

\* A dispatcher whose multiThreadReview has not been called with `cs`.
DispatcherInit(cs) ==
  /\ chunks = cs
  /\ dpc = "idle"
  /\ batches = << >>
  /\ batchIdx = 0
  /\ call = [c \in 0..(Len(cs) - 1) |-> "unstarted"]
  /\ invoked = [c \in 0..(Len(cs) - 1) |-> 0]
  /\ completed = << >>
  /\ started = [c \in 0..(Len(cs) - 1) |-> NotStarted]
  /\ tmpdir = {}
  /\ uuids = 0
  /\ instances = 0
  /\ results = << >>
  /\ errors = << >>
  /\ final = NoFinal

\* The chunk list a split into n chunks yields: ids 0..n-1 in order, of two
\* files or of one.
ChunkList(n) ==
  [i \in 1..n |-> [chunk_id |-> i - 1, files |-> [k \in 1..((i % 2) + 1) |-> i - 1]]]

\* State after `new MultiThreadAmpReviewer(config, maxChunkSize, maxConcurrent)`
\* and a split of the diff into two or more chunks (reviewDiff calls
\* multiThreadReview only then).
InitDispatch ==
  /\ maxQueueSize = 1
  /\ variant = "client"
  /\ QueueInit
  /\ ClientInit
  /\ hasRefresh = FALSE
  /\ maxConcurrent \in 1..MaxConcurrentBound
  /\ \E n \in 2..MaxChunks : DispatcherInit(ChunkList(n))
  /\ mrDetails \in {MrDetailsOf(iid) : iid \in MrIids}
  /\ SplitterInit(1, << BodyLine(0) >>)

NextDispatch ==
  \/ MultiThreadReviewStart
  \/ ChunkDone
  \/ BatchSettled

SpecDispatch == InitDispatch /\ [][NextDispatch]_vars

\* State after `new MultiThreadAmpReviewer(config, maxChunkSize, maxConcurrent)`
\* with any number that config.diff_splitting.max_concurrent can hold from 0
\* up, and a split of the diff into two or more chunks.
InitBatches ==
  /\ maxQueueSize = 1
  /\ variant = "client"
  /\ QueueInit
  /\ ClientInit
  /\ hasRefresh = FALSE
  /\ maxConcurrent \in 0..MaxConcurrentBound
  /\ \E n \in 2..MaxChunks : DispatcherInit(ChunkList(n))
  /\ mrDetails \in {MrDetailsOf(iid) : iid \in MrIids}
  /\ SplitterInit(1, << BodyLine(0) >>)

\* multiThreadReview goes on when createBatches has returned.
ReviewAfterBatches == bpc = "returned" /\ MultiThreadReviewStart

NextBatches ==
  \/ CreateBatchesCall
  \/ CreateBatchesLoop
  \/ ReviewAfterBatches
  \/ ChunkDone
  \/ BatchSettled

\* multiThreadReview with the loop of createBatches followed pass by pass;
\* the loop goes on while its test holds and every dispatched call settles.
SpecBatches == InitBatches /\ [][NextBatches]_vars /\ WF_vars(NextBatches)

\* State after `new MultiThreadAmpReviewer(config, maxChunkSize, maxConcurrent)`
\* with a diff text at hand.
InitSplit ==
  /\ maxQueueSize = 1
  /\ variant = "client"
  /\ QueueInit
  /\ ClientInit
  /\ hasRefresh = FALSE
  /\ maxConcurrent = 2
  /\ DispatcherInit(<< >>)
  /\ mrDetails = NoDetails
  /\ \E size \in MaxChunkSizes, text \in Texts : SplitterInit(size, text)

SingleReviewDone == \E outcome \in ChunkOutcomes : SingleReviewSettle(outcome)

NextSplit ==
  \/ ReviewDiffCall
  \/ NextBatchCall
  \/ SingleReviewDone

SpecSplit == InitSplit /\ [][NextSplit]_vars

\* State after `new ReviewJobQueue(gitlabClient, config, maxQueueSize)`.
Init ==
  /\ maxQueueSize \in 1..MaxQueueSizeBound
  /\ variant \in Variants
  /\ QueueInit
  /\ ClientInit
  /\ hasRefresh = FALSE
  /\ maxConcurrent = 1
  /\ DispatcherInit(<< >>)
  /\ mrDetails = NoDetails
  /\ SplitterInit(1, << BodyLine(0) >>)

Enqueue ==
  /\ \E payload \in Payloads : enqueueReview(payload)
  /\ UNCHANGED << wvars, hvars, cvars, fvars, bvars >>

FetchDone == \E id \in DOMAIN jobs, r \in {"diff", "empty", "throw"} : GetMRDiffSettle(id, r)

ReviewDone == \E id \in DOMAIN jobs, r \in {"ok", "throw"} : ReviewDiffSettle(id, r)

StatusPosted == \E id \in DOMAIN jobs, r \in {"ok", "throw"} : PostCommitStatusSettle(id, r)

ProcessorDone == \E id \in DOMAIN jobs, o \in ProcessorOutcomes : ProcessMREventSettle(id, o)

FailurePosted == \E id \in DOMAIN jobs, ext \in {"ok", "throw", "none"} : PostFailureSettle(id, ext)

TimerFired == \E id \in DOMAIN jobs : CleanupTimer(id)

Next ==
  \/ Enqueue
  \/ FetchDone
  \/ ReviewDone
  \/ StatusPosted
  \/ ProcessorDone
  \/ FailurePosted
  \/ TimerFired

Spec == Init /\ [][Next]_vars

\* enqueueReview with the WebhookProcessor at work behind the processor
\* version of the queue.
EnqueueProc ==
  /\ \E payload \in Payloads : enqueueReview(payload) /\ ProcessMREventStart(nextId, payload)
  /\ UNCHANGED << hvars, cvars, fvars, bvars >>

ProcessorStep ==
  \E id \in DOMAIN jobs, r \in {"diff", "empty", "ok", "failed", "throw"} :
    ProcessMREventResume(id, r)

\* The promise of processMREvent resolves with what the call returned.
ProcessorReturn ==
  \E id \in DOMAIN jobs :
    /\ wpc[id] = "returned"
    /\ ProcessMREventSettle(id, [rejected |-> FALSE, value |-> wret[id]])

NextProc ==
  \/ EnqueueProc
  \/ FetchDone
  \/ ReviewDone
  \/ StatusPosted
  \/ ProcessorStep
  \/ ProcessorReturn
  \/ FailurePosted
  \/ TimerFired

\* The queue with processMREvent followed step by step.
SpecProc == Init /\ [][NextProc]_vars

Webhook == \E ev \in WebhookEvents : WebhookPost(ev)

\* The routes are served by the queue that holds a GitLab client.
InitHook == Init /\ variant = "client" /\ maxQueueSize <= HookQueueSizeBound

NextHook ==
  \/ Webhook
  \/ FetchDone
  \/ ReviewDone
  \/ StatusPosted
  \/ FailurePosted
  \/ TimerFired

\* The queue fed by the webhook route.
SpecHook == InitHook /\ [][NextHook]_vars

ProcessorFanOutStep ==
  \E id \in DOMAIN jobs, r \in {"diff", "empty", "ok", "failed", "throw"} :
    ProcessMREventFanOut(id, r)

ReviewCallDone == \E id \in DOMAIN jobs : ReviewCallSettle(id)

BatchDone == \E id \in DOMAIN jobs : NextBatch(id)

\* The processor queue with any configured concurrency.
InitFanOut ==
  /\ maxQueueSize \in 1..MaxQueueSizeBound
  /\ variant = "processor"
  /\ QueueInit
  /\ ClientInit
  /\ hasRefresh = FALSE
  /\ maxConcurrent \in 1..MaxConcurrentBound
  /\ DispatcherInit(<< >>)
  /\ mrDetails = NoDetails
  /\ SplitterInit(1, << BodyLine(0) >>)

\* enqueueReview with a payload that has what the review needs.
EnqueueFanOut ==
  /\ enqueueReview(FullPayload) /\ ProcessMREventStart(nextId, FullPayload)
  /\ UNCHANGED << hvars, cvars, fvars, bvars >>

NextFanOut ==
  \/ EnqueueFanOut
  \/ ProcessorFanOutStep
  \/ ReviewCallDone
  \/ BatchDone
  \/ ProcessorReturn
  \/ FailurePosted
  \/ TimerFired

\* The processor queue with every review call of every job followed.
SpecFanOut == InitFanOut /\ [][NextFanOut]_vars

\* A client with or without an installation that holds a refresh token; the
\* queue and the reviewers are at rest.
InitClient ==
  /\ maxQueueSize = 1
  /\ variant = "client"
  /\ QueueInit
  /\ ClientInit
  /\ maxConcurrent = 1
  /\ DispatcherInit(<< >>)
  /\ mrDetails = NoDetails
  /\ SplitterInit(1, << BodyLine(0) >>)
  /\ hasRefresh \in BOOLEAN

NextClient ==
  \/ MakeRequestCall
  \/ \E r \in Statuses \cup {"error"} : FirstFetchSettle(r)
  \/ \E ok \in BOOLEAN : RefreshSettle(ok)
  \/ \E ok \in BOOLEAN : UpdateSettle(ok)
  \/ \E r \in Statuses \cup {"error"} : RetrySettle(r)

\* The requests of one GitLabClient, made one after the other.
SpecClient == InitClient /\ [][NextClient]_vars

\* The event loop runs every continuation whose awaited promise has settled
\* and fires every timer that is due; every call to a collaborator settles.
SpecLive ==
  /\ Init
  /\ [][Next]_vars
  /\ \A id \in JobIds :
       /\ WF_vars(\E r \in {"diff", "empty", "throw"} : GetMRDiffSettle(id, r))
       /\ WF_vars(\E r \in {"ok", "throw"} : ReviewDiffSettle(id, r))
       /\ WF_vars(\E r \in {"ok", "throw"} : PostCommitStatusSettle(id, r))
       /\ WF_vars(\E o \in ProcessorOutcomes : ProcessMREventSettle(id, o))
       /\ WF_vars(\E ext \in {"ok", "throw", "none"} : PostFailureSettle(id, ext))
       /\ WF_vars(CleanupTimer(id))

\* =================================================================== claims

Terminal == {COMPLETED, FAILED}

\* C1: with maxQueueSize = m and no job evicted yet, the first m calls to
\* enqueueReview return a job id and the (m+1)-th throws QueueFullError,
\* whether or not the earlier jobs have settled.
C1_FirstMSucceedThenFull ==
  evictions = 0 =>
    \A i \in 1..Len(enqLog) :
      /\ i <= maxQueueSize => (Accepted(i) /\ enqLog[i].jobId \in JobIds)
      /\ i = maxQueueSize + 1 => enqLog[i].threw = QueueFullError

C1_Witness ==
  /\ evictions = 0
  /\ Len(enqLog) = maxQueueSize + 1
  /\ maxQueueSize = 2
  /\ enqLog[maxQueueSize + 1].threw = QueueFullError
  /\ \E id \in DOMAIN jobs : jobs[id].status \in Terminal

\* C2: in every reachable state the tracking table holds at most maxQueueSize
\* job records.
C2_TableBounded == Cardinality(DOMAIN jobs) <= maxQueueSize

C2_Witness ==
  /\ Cardinality(DOMAIN jobs) = maxQueueSize
  /\ evictions > 0
  /\ \E i \in 1..Len(enqLog) : enqLog[i].threw = QueueFullError

Rank(st) == CASE st = QUEUED -> 0 [] st = RUNNING -> 1 [] OTHER -> 2

C3_State ==
  \A id \in DOMAIN jobs :
    /\ settleCount[id] <= 1
    /\ jobs[id].status \in Terminal <=> settleCount[id] = 1

C3_Step ==
  \A id \in JobIds :
    /\ (id \in DOMAIN jobs /\ id \in DOMAIN jobs') =>
         /\ Rank(jobs'[id].status) >= Rank(jobs[id].status)
         /\ jobs[id].status \in Terminal => jobs'[id].status = jobs[id].status
    /\ (id \in DOMAIN jobs /\ id \notin DOMAIN jobs') => jobs[id].status \in Terminal
    /\ (id \notin DOMAIN jobs /\ pc[id] # "none") => id \notin DOMAIN jobs'

\* C3: a job's status only moves forward along Queued -> Running ->
\* (Completed | Failed) -> removed: a terminal status is assigned exactly
\* once, is never changed afterwards, and a removed job does not come back.
C3_ForwardOnly == [](C3_State) /\ [][C3_Step]_vars

C3_Witness ==
  \E a, b \in DOMAIN jobs :
    /\ jobs[a].status = COMPLETED /\ settleCount[a] = 1
    /\ jobs[b].status = FAILED /\ settleCount[b] = 1 /\ pc[b] = "timer"
    /\ evictions > 0

\* C4: when enqueueReview returns a job id, that job's status is still
\* Queued (the move to Running is seen only after the return).
C4_QueuedAtReturn ==
  \A i \in 1..Len(enqLog) : Accepted(i) => enqLog[i].status = QUEUED

\* C5: for every job id enqueueReview returned, getJobStatus(id) finds the
\* record at every moment until that job's own cleanup timer has fired.
C5_FoundUntilEvicted ==
  \A i \in 1..Len(enqLog) :
    (Accepted(i) /\ pc[enqLog[i].jobId] # "cleaned") =>
      getJobStatus(enqLog[i].jobId).status # Null.status

C5_Witness ==
  /\ evictions > 0
  /\ \E a, b \in DOMAIN jobs :
       /\ a # b
       /\ pc[a] = "timer" /\ getJobStatus(a).status \in Terminal
       /\ pc[b] # "timer" /\ getJobStatus(b).status = RUNNING

HasErrorMessage(job) ==
  job.error # Unset \/ (job.result.present /\ job.result.error # Unset)

\* C6: an exception raised by the job's work (diff fetch, review call,
\* status post, processor call) is caught inside processReview: the job is
\* Failed with the exception's message as its error; an exception of the
\* failure-status post is swallowed and leaves the job Failed with its error
\* message; the promise of processReview never rejects, and enqueueReview
\* throws nothing but QueueFullError.
C6_ExceptionsRecorded ==
  /\ \A id \in DOMAIN jobs :
       /\ raised[id] # Unset =>
            (jobs[id].status = FAILED /\ jobs[id].error = raised[id])
       /\ (swallowed[id] /\ pc[id] = "timer") =>
            (jobs[id].status = FAILED /\ HasErrorMessage(jobs[id]))
  /\ \A id \in JobIds : promise[id] # "rejected"
  /\ \A i \in 1..Len(enqLog) : enqLog[i].threw \in {"none", QueueFullError}

C6_Witness ==
  \E a, b \in DOMAIN jobs :
    /\ raised[a] = StatusError /\ pc[a] = "timer" /\ promise[a] = "fulfilled"
    /\ swallowed[a]
    /\ raised[b] = ReviewError /\ pc[b] = "postFailureCatch"

BatchNo(c) == (c \div maxConcurrent) + 1

Started(c) == call[c] # "unstarted"

\* C8: while N chunks are processed with maxConcurrent = k, at most k
\* chunk-review calls are started and not yet settled.
C8_OutstandingBounded == Cardinality(Outstanding) <= maxConcurrent

C8_Witness ==
  /\ maxConcurrent = 2
  /\ Len(chunks) = 4
  /\ batchIdx = 2
  /\ Cardinality(Outstanding) = maxConcurrent

\* C9: batches are strictly sequential: no call of a later batch is started
\* before every call of each earlier batch has settled, and the calls of one
\* batch are all started together.
C9_BatchesSequential ==
  \A c, d \in DOMAIN call :
    /\ (BatchNo(c) < BatchNo(d) /\ Started(d)) => Settled(c)
    /\ BatchNo(c) = BatchNo(d) => (Started(c) <=> Started(d))

C9_Witness ==
  /\ maxConcurrent = 2
  /\ Len(chunks) = 3
  /\ call[0] = "rejected" /\ call[1] = "ok" /\ call[2] = "inflight"

\* C10: the review capability is invoked exactly once for every chunk,
\* whatever subset of the chunk reviews fails: a failed call neither cancels
\* the other calls of its batch nor stops later batches from being started.
C10_EveryChunkInvokedOnce ==
  /\ \A c \in DOMAIN call : invoked[c] <= 1
  /\ dpc = "awaiting" => (Outstanding # {} \/ ENABLED BatchSettled)
  /\ dpc = "returned" =>
       /\ \A c \in DOMAIN call : invoked[c] = 1 /\ Settled(c)
       /\ Len(results) + Len(errors) = Len(chunks)

C10_Witness ==
  /\ dpc = "returned"
  /\ maxConcurrent = 2
  /\ Len(chunks) = 3
  /\ call[0] = "rejected" /\ call[1] = "failed" /\ call[2] = "ok"
  /\ invoked[2] = 1

\* A chunk whose review failed: the command of its call errored or timed out
\* ("failed"), or the promise of its call rejected.
ChunkFailed(c) == call[c] \in {"failed", "rejected"}

FailedCount == Cardinality({c \in DOMAIN call : ChunkFailed(c)})

\* C11: aggregation over N >= 2 chunks of which f fail: success is false iff
\* f = N, and then neither review text nor issues are returned;
\* partial_failures is non-empty iff 0 < f < N, and then has exactly f
\* entries.
C11_AggregationByFailureCount ==
  dpc = "returned" =>
    /\ final.success = FALSE <=> FailedCount = Len(chunks)
    /\ FailedCount = Len(chunks) => (~final.final_review /\ final.issues = 0)
    /\ Len(final.partial_failures) > 0 <=>
         (0 < FailedCount /\ FailedCount < Len(chunks))
    /\ (0 < FailedCount /\ FailedCount < Len(chunks)) =>
         Len(final.partial_failures) = FailedCount

\* C12: a chunk whose review command errors or times out is recorded in
\* errors with its chunk id, its files and the error message, is counted in
\* chunks_failed, and is not among the processed chunks.
C12_FailedChunkRecordedAsFailure ==
  dpc = "returned" =>
    \A c \in DOMAIN call :
      call[c] = "failed" =>
        /\ \E i \in 1..Len(errors) :
             /\ errors[i].chunk_id = c
             /\ errors[i].files = chunks[c + 1].files
             /\ errors[i].error # Unset
        /\ \A i \in 1..Len(results) : results[i].chunk_id # c
        /\ final.chunks_failed >= Cardinality({d \in DOMAIN call : call[d] = "failed"})

\* C13: every text passed to the review capability has at most maxChunkSize
\* characters, also when files are oversized or the split yields zero or one
\* chunk.
C13_EveryRequestWithinLimit ==
  \A i \in 1..Len(sent) : TextLen(sent[i]) <= maxChunkSize

\* C14: for a diff of at most maxChunkSize characters, splitDiff returns
\* exactly one chunk, with id 0, whose content is the input verbatim and
\* whose total_chars is the input's length.
C14_FastPath ==
  (spc # "idle" /\ TextLen(input) <= maxChunkSize) =>
    /\ Len(split) = 1
    /\ split[1].chunk_id = 0
    /\ split[1].diff_content = input
    /\ split[1].total_chars = TextLen(input)

C14_Witness ==
  /\ spc = "single"
  /\ TextLen(input) = maxChunkSize
  /\ Len(input) >= 2
  /\ \E i \in 1..Len(input) : IsHeader(input[i])
  /\ Len(split) = 1 /\ split[1].diff_content = input

Parsed == parseFileDiffs(input)

\* The files of the parsed list pf that are not oversized, by their position.
KeptOf(pf) == {i \in 1..Len(pf) : pf[i].char_count <= maxChunkSize}

\* splitDiff took the bin-packing path: the text is longer than maxChunkSize
\* and at least one file was parsed.
OnPackingPath ==
  spc # "idle" /\ TextLen(input) > maxChunkSize /\ Len(Parsed) > 0

\* The entries of all files lists: (chunk, position) pairs.
Entries == {e \in (1..Len(split)) \X (1..MaxLines + 1) : e[2] <= Len(split[e[1]].files)}

EntriesOf(p) == {e \in Entries : split[e[1]].files[e[2]] = p}

ListedPaths == {split[e[1]].files[e[2]] : e \in Entries}

\* C15: every chunk of the bin-packing path has total_chars <= maxChunkSize;
\* a file larger than maxChunkSize is put in no chunk (the chunks list one
\* entry per file that is not oversized, and a path whose files are all
\* oversized is listed nowhere), and the split still returns.
C15_SizeBound ==
  OnPackingPath =>
    LET pf == Parsed
        kept == KeptOf(pf)
    IN /\ \A k \in 1..Len(split) : split[k].total_chars <= maxChunkSize
       /\ Cardinality(Entries) = Cardinality(kept)
       /\ \A p \in Paths :
            (\A i \in kept : pf[i].file_path # p) => EntriesOf(p) = {}

C15_Witness ==
  /\ OnPackingPath
  /\ Len(split) >= 2
  /\ Cardinality(KeptOf(Parsed)) < Len(Parsed)
  /\ \E k \in 1..Len(split) : split[k].total_chars = maxChunkSize

\* C16 as stated: on the bin-packing path the paths listed by the chunks are
\* the parsed paths that are not oversized, and no path is listed in two
\* chunks or twice in one chunk.
C16_ConservationByPath ==
  OnPackingPath =>
    LET pf == Parsed
    IN /\ ListedPaths = {pf[i].file_path : i \in KeptOf(pf)}
       /\ \A p \in Paths : Cardinality(EntriesOf(p)) <= 1

\* C16 (amended): on the bin-packing path every path is listed by the chunks
\* exactly as many times as there are parsed files of that path that are not
\* oversized; hence when the headers of the diff name pairwise different
\* destination paths, the union of the files lists is the set of parsed paths
\* minus the oversized ones and no path is listed twice.
C16_ConservationByFile ==
  OnPackingPath =>
    LET pf == Parsed
        kept == KeptOf(pf)
        all == 1..Len(pf)
    IN /\ \A p \in Paths :
            Cardinality(EntriesOf(p)) =
              Cardinality({i \in kept : pf[i].file_path = p})
       /\ (\A i, j \in all : pf[i].file_path = pf[j].file_path => i = j)
          => /\ ListedPaths = {pf[i].file_path : i \in all} \
                              {pf[i].file_path : i \in all \ kept}
             /\ \A p \in Paths : Cardinality(EntriesOf(p)) <= 1

C16_Witness ==
  /\ OnPackingPath
  /\ Len(split) >= 2
  /\ Cardinality(KeptOf(Parsed)) < Len(Parsed)
  /\ \E p \in Paths : Cardinality(EntriesOf(p)) = 2

\* File i of sizes sz is processed before file j: larger first, equal sizes
\* in parse order.
Before(sz, i, j) == sz[i] > sz[j] \/ (sz[i] = sz[j] /\ i < j)

RECURSIVE SizeSum(_, _)
SizeSum(sz, idx) ==
  IF idx = {} THEN 0
  ELSE LET i == CHOOSE x \in idx : TRUE
       IN sz[i] + SizeSum(sz, idx \ {i})

\* The assignment a of the kept files to chunk ids is first-fit-decreasing:
\* each file goes to the lowest id whose load from the files before it leaves
\* room, all lower ids being in use and too full, and a new id is the number
\* of ids in use.
IsFirstFitDecreasing(sz, kept, a) ==
  \A i \in kept :
    LET earlier == {j \in kept : Before(sz, j, i)}
        used == {a[j] : j \in earlier}
        load(k) == SizeSum(sz, {j \in earlier : a[j] = k})
    IN /\ a[i] \notin used => a[i] = Cardinality(used)
       /\ load(a[i]) + sz[i] <= maxChunkSize
       /\ \A k \in 0..(a[i] - 1) : k \in used /\ load(k) + sz[i] > maxChunkSize

\* The chunk list chs is the one the assignment a of the files pf describes.
ChunksFollow(chs, pf, sz, kept, a) ==
  /\ Len(chs) = Cardinality({a[i] : i \in kept})
  /\ \A k \in 1..Len(chs) :
       LET members == {i \in kept : a[i] = k - 1}
       IN /\ chs[k].chunk_id = k - 1
          /\ chs[k].total_chars = SizeSum(sz, members)
          /\ Len(chs[k].files) = Cardinality(members)
          /\ \A i \in members :
               chs[k].files[1 + Cardinality({j \in members : Before(sz, j, i)})]
                 = pf[i].file_path

\* C17: the packing is first-fit-decreasing: files in size-descending order,
\* ties in parse order, each in the lowest-id chunk with room, else in a new
\* chunk with the next id; the chunk list depends on maxChunkSize and the
\* parsed file list only, chunk ids are 0..n-1 in creation order, and every
\* total_chars is the sum of the sizes of the chunk's files.
C17_FirstFitDecreasing ==
  OnPackingPath =>
    LET pf == Parsed
        sz == [i \in 1..Len(pf) |-> pf[i].char_count]
        kept == KeptOf(pf)
    IN /\ split = groupFilesIntoChunks(pf)
       /\ \E a \in [kept -> 0..(Cardinality(kept) - 1)] :
            IsFirstFitDecreasing(sz, kept, a) /\ ChunksFollow(split, pf, sz, kept, a)

C17_Witness ==
  /\ OnPackingPath
  /\ maxChunkSize = 38
  /\ Len(split) = 2
  /\ split[1].files = << "bb", "a" >>
  /\ split[2].files = << "bb" >>
  /\ input[Len(input)].path = "bb"

C18_Step ==
  (Len(enqLog') = Len(enqLog) + 1 /\ Cardinality(DOMAIN jobs) >= maxQueueSize) =>
    LET e == enqLog'[Len(enqLog')]
    IN /\ e.threw = QueueFullError
       /\ e.capacity = maxQueueSize
       /\ e.jobId \notin JobIds
       /\ jobs' = jobs
       /\ processing' = processing
       /\ pc' = pc
       /\ promise' = promise
       /\ payloadOf' = payloadOf
       /\ nextId' = nextId
       /\ getQueueStats' = getQueueStats

\* C18: an enqueueReview call made at capacity throws QueueFullError naming
\* maxQueueSize before the call returns, and changes nothing: no job record
\* is created, no processReview is started, no collaborator is called, every
\* job record and the queue statistics stay as they were.
C18_RejectedEnqueueNoEffect == [][C18_Step]_vars

C18_Witness ==
  /\ Len(enqLog) >= 2
  /\ enqLog[Len(enqLog)].threw = QueueFullError
  /\ enqLog[Len(enqLog)].capacity = 2
  /\ Cardinality(DOMAIN jobs) = 2
  /\ \E a, b \in DOMAIN jobs : jobs[a].status = RUNNING /\ jobs[b].status \in Terminal

\* C19: a job that is Running, Completed or Failed has a start time; a
\* Completed job has the outcome of its work as result and a completion
\* time; a Failed job has an error message (as job.error or, at least, in
\* the result attached to it).
C19_FieldsFollowStatus ==
  \A id \in DOMAIN jobs :
    /\ jobs[id].status \in {RUNNING, COMPLETED, FAILED} => jobs[id].started
    /\ jobs[id].status = COMPLETED =>
         /\ jobs[id].completed
         /\ jobs[id].result.present /\ jobs[id].result.success
         /\ variant = "processor" => jobs[id].result = local[id]
    /\ jobs[id].status = FAILED => HasErrorMessage(jobs[id])

\* C20: at every call getQueueStats returns a consistent snapshot: the four
\* status counts add up to total, total is the number of job records tracked
\* and is at most maxSize (= maxQueueSize), and every count is the number of
\* tracked jobs in that status at the time of the call.
C20_StatsSnapshot ==
  LET stats == getQueueStats
      tracked(st) == {id \in JobIds : getJobStatus(id).status = st}
  IN /\ stats.queued + stats.running + stats.completed + stats.failed = stats.total
     /\ stats.total = Cardinality({id \in JobIds : getJobStatus(id).status # Null.status})
     /\ stats.total <= stats.maxSize
     /\ stats.maxSize = maxQueueSize
     /\ stats.queued = Cardinality(tracked(QUEUED))
     /\ stats.running = Cardinality(tracked(RUNNING))
     /\ stats.completed = Cardinality(tracked(COMPLETED))
     /\ stats.failed = Cardinality(tracked(FAILED))

C20_Witness ==
  /\ evictions > 0
  /\ getQueueStats.total = 2
  /\ getQueueStats.running = 1
  /\ getQueueStats.failed = 1
  /\ Len(enqLog) = MaxEnqueues

\* C21: a failure of the status sink never fails the job: a job whose review
\* succeeded and whose commit-status post threw still ends Completed; a job
\* whose failure-status post threw keeps its Failed status and its error
\* message, and the promise of processReview does not reject.
C21_StatusSinkNeverFailsJob ==
  \A id \in DOMAIN jobs :
    /\ (raised[id] = StatusError /\ pc[id] = "timer") => jobs[id].status = COMPLETED
    /\ (swallowed[id] /\ pc[id] = "timer") =>
         /\ jobs[id].status = FAILED
         /\ HasErrorMessage(jobs[id])
         /\ promise[id] = "fulfilled"

\* The input error found for job id, if any: the message of the missing-field
\* check or of the empty-diff check.
InputError(id) ==
  (IF variant = "client" THEN jobs[id].error ELSE wret[id].error)
    \in {MissingInfoError, NoDiffError}

\* C22: input errors fail fast: a job whose payload lacks the MR iid, the
\* project id or the commit SHA is found out, and for a job found to have an
\* input error (missing field or empty diff) the review capability has not
\* been invoked, the job is never Completed, it is Failed with an error
\* message once processReview has finished, and its work is not started
\* again.
C22_InputErrorsFailFast ==
  \A id \in DOMAIN jobs :
    /\ ~(payloadOf[id].iid /\ payloadOf[id].projectId /\ payloadOf[id].commitSha)
         => InputError(id)
    /\ InputError(id) =>
         /\ reviewCalls[id] = 0
         /\ jobs[id].status \in {RUNNING, FAILED}
         /\ pc[id] \in {"processMREvent", "postFailureTry", "timer"}
         /\ variant = "processor" => wpc[id] = "returned"
         /\ pc[id] = "timer" => (jobs[id].status = FAILED /\ HasErrorMessage(jobs[id]))

\* Two finished jobs, one with a missing field and one with an empty diff.
C22_Witness ==
  \E a, b \in DOMAIN jobs :
    /\ pc[a] = "timer" /\ pc[b] = "timer"
    /\ InputError(a) /\ ~HasRequiredInfo(payloadOf[a])
    /\ InputError(b) /\ HasRequiredInfo(payloadOf[b])
    /\ jobs[a].status = FAILED /\ jobs[b].status = FAILED

\* The step is the handler answering a request (in SpecHook every call of
\* enqueueReview is the handler's).
C23_Answered == lastResponse' # lastResponse \/ Len(enqLog') = Len(enqLog) + 1

\* The answer matches what enqueueReview did in the same step.
C23_Answer ==
  LET grew == Len(enqLog') = Len(enqLog) + 1
      e == enqLog'[Len(enqLog')]
      r == lastResponse'
  IN /\ r.code = 202 <=> (grew /\ e.threw = "none")
     /\ r.code = 202 =>
          /\ r.jobId = e.jobId
          /\ r.jobId \in DOMAIN jobs'
          /\ promise'[r.jobId] = "pending"
          /\ pc'[r.jobId] \in {"getMRDiff", "postFailureTry"}
     /\ r.code = 503 <=> (grew /\ e.threw = QueueFullError)
     /\ r.code = 503 <=> r.retry_after = RetryAfterSeconds
     /\ r.code \in {200, 202, 400, 500, 503}

\* C23: the webhook handler answers 202 with the job id exactly when
\* enqueueReview returned it, while the job's work is still outstanding, and
\* 503 with a retry-after value exactly when enqueueReview threw
\* QueueFullError; a request during which any other error is thrown is
\* answered 500.
C23_WebhookAnswers ==
  [][/\ C23_Answered => C23_Answer
     /\ \A ev \in {x \in WebhookEvents : ThrowsBeforeEnqueue(x)} :
          WebhookPost(ev) => (lastResponse'.code = 500 /\ enqLog' = enqLog)]_vars

\* The route has answered 503, and an accepted job is still being worked on.
C23_Witness ==
  /\ lastResponse.code = 503
  /\ lastResponse.retry_after = RetryAfterSeconds
  /\ \E i \in 1..Len(enqLog) : Accepted(i) /\ enqLog[i].jobId \in DOMAIN jobs
  /\ enqLog[Len(enqLog)].threw = QueueFullError

\* C24: when the split yields exactly one chunk, the single reviewer is
\* invoked exactly once, on the full diff text, nothing is batched, and the
\* promise of reviewDiff settles as the reviewer's does, with the reviewer's
\* result as it is: no stats and no partial_failures.
C24_SingleChunkFastPath ==
  (spc # "idle" /\ Len(split) = 1) =>
    /\ sent = << input >>
    /\ sbatch = 0
    /\ spc \in {"single", "settled"}
    /\ spc = "single" => sret = Pending
    /\ spc = "settled" =>
         /\ sret.how = (IF single = "rejected" THEN "rejected" ELSE "fulfilled")
         /\ single \in {"ok", "failed"} =>
              /\ sret.value.returned
              /\ sret.value.success = ReviewResultOf(single).success
              /\ sret.value.error = ReviewResultOf(single).error
              /\ sret.value.issues = ReviewResultOf(single).issues
              /\ sret.value.final_review = ReviewResultOf(single).final_review
              /\ ~sret.value.stats
              /\ ~sret.value.note
              /\ sret.value.chunks_processed = 0
              /\ sret.value.chunks_failed = 0
              /\ sret.value.partial_failures = << >>

\* A diff of several lines was split into one chunk and reviewed.
C24_Witness ==
  /\ spc = "settled" /\ Len(split) = 1 /\ Len(input) > 1
  /\ single = "ok" /\ sret.how = "fulfilled" /\ sret.value.success

\* C25: the promise of the dispatcher's reviewDiff never rejects: once it has
\* settled it is fulfilled with a result carrying success, and an error
\* message when success is false.
C25_ReviewDiffNeverRejects ==
  sret.how # "pending" =>
    /\ sret.how = "fulfilled"
    /\ sret.value.returned
    /\ ~sret.value.success => sret.value.error # Unset

\* The failed chunks are exactly those listed in partial_failures, each with
\* its files and an error message.
ListsFailedChunks(pfs) ==
  /\ {pfs[i].chunk_id : i \in 1..Len(pfs)} = {c \in DOMAIN call : ChunkFailed(c)}
  /\ Len(pfs) = FailedCount
  /\ \A i \in 1..Len(pfs) :
       /\ pfs[i].files = chunks[pfs[i].chunk_id + 1].files
       /\ pfs[i].error # Unset

\* C26: when at least one chunk succeeded and at least one failed, the
\* aggregated result has the partial-failure note in its review text and
\* partial_failures lists exactly the failed chunks' ids, files and error
\* messages; when no chunk failed it has neither.
C26_PartialFailureNote ==
  dpc = "returned" =>
    /\ ((\E c \in DOMAIN call : call[c] = "ok") /\ FailedCount > 0) =>
         (final.note /\ ListsFailedChunks(final.partial_failures))
    /\ FailedCount = 0 => (~final.note /\ final.partial_failures = << >>)

RECURSIVE FilesOfOk(_)
\* The number of files of the chunks of cs whose review succeeded.
FilesOfOk(cs) ==
  IF Len(cs) = 0 THEN 0
  ELSE (IF call[Head(cs).chunk_id] = "ok" THEN Len(Head(cs).files) ELSE 0)
       + FilesOfOk(Tail(cs))

RECURSIVE StructuredOfOk(_)
\* The number of structured issues of the chunks of cs whose review succeeded.
StructuredOfOk(cs) ==
  IF Len(cs) = 0 THEN 0
  ELSE (IF call[Head(cs).chunk_id] = "ok" THEN ReviewResultOf("ok").structured_issues ELSE 0)
       + StructuredOfOk(Tail(cs))

\* C27: the stats are totals over the chunks: chunks_processed +
\* chunks_failed is the number of chunks dispatched, total_files_reviewed is
\* the sum of the file counts of the successful chunks, and total_issues is
\* the number of structured issues of the successful chunks.
C27_StatsAreTotals ==
  dpc = "returned" =>
    /\ final.stats
    /\ final.chunks_processed + final.chunks_failed = Len(chunks)
    /\ final.total_files_reviewed = FilesOfOk(chunks)
    /\ final.total_issues = StructuredOfOk(chunks)

\* The chunk ids of a list of collected results or errors are ascending.
Ascending(list) ==
  \A i, j \in 1..Len(list) : i < j => list[i].chunk_id < list[j].chunk_id

\* C28: the aggregated result does not depend on the order in which the
\* review calls of a batch complete: it is the aggregate of the chunks'
\* outcomes taken in chunk-list order, and the collected results, errors and
\* partial_failures are in ascending chunk-id order.
C28_CompletionOrderIrrelevant ==
  dpc = "returned" =>
    /\ results = FulfilledOf(chunks)
    /\ errors = RejectedOf(chunks)
    /\ final = aggregateResults(FulfilledOf(chunks), RejectedOf(chunks))
    /\ Ascending(results)
    /\ Ascending(errors)
    /\ Ascending(final.partial_failures)

\* Two calls of one batch completed against dispatch order, one fulfilled
\* and one rejected after it, and the aggregate has been returned.
C28_Witness ==
  /\ dpc = "returned"
  /\ Len(results) >= 2
  /\ Len(errors) >= 1
  /\ \E i, j \in 1..Len(completed) :
       /\ i < j
       /\ completed[i] > completed[j]
       /\ \E b \in 1..Len(batches) :
            InBatch(batches[b], completed[i]) /\ InBatch(batches[b], completed[j])

\* The input has no file header line.
NoHeader == \A i \in 1..Len(input) : ~IsHeader(input[i])

\* Index of the first file header line of the input (when it has one).
FirstHeader == CHOOSE h \in 1..Len(input) :
                 IsHeader(input[h]) /\ \A i \in 1..(h - 1) : ~IsHeader(input[i])

RECURSIVE ContentOf(_)
\* The contents of a list of file diffs or chunks, one after the other.
ContentOf(list) ==
  IF Len(list) = 0 THEN << >> ELSE Head(list).diff_content \o ContentOf(Tail(list))

\* C29: a diff longer than maxChunkSize in which no file header is found is
\* returned as exactly one chunk, with id 0, no files and the whole input as
\* content, so that its total_chars exceeds maxChunkSize; on the packing
\* path the lines before the first header belong to no parsed file and to no
\* chunk: every chunk starts with a header line, and the chunks together
\* hold no more lines than follow the first header.
C29_NoHeaderFallback ==
  /\ (spc # "idle" /\ TextLen(input) > maxChunkSize /\ NoHeader) =>
       /\ Len(split) = 1
       /\ split[1].chunk_id = 0
       /\ split[1].files = << >>
       /\ split[1].diff_content = input
       /\ split[1].total_chars = TextLen(input)
       /\ split[1].total_chars > maxChunkSize
  /\ (spc # "idle" /\ TextLen(input) > maxChunkSize /\ ~NoHeader) =>
       /\ ContentOf(parseFileDiffs(input)) = SubSeq(input, FirstHeader, Len(input))
       /\ \A k \in 1..Len(split) :
            Len(split[k].diff_content) > 0 /\ IsHeader(split[k].diff_content[1])
       /\ Len(ContentOf(split)) <= Len(input) - (FirstHeader - 1)

\* A text of several lines without header, too long for one chunk, has been
\* split.
C29_Witness ==
  /\ spc # "idle"
  /\ NoHeader
  /\ Len(input) >= 2
  /\ TextLen(input) > maxChunkSize
  /\ Len(split) = 1 /\ split[1].diff_content = input

\* Every tracked job has settled and waits for its retention timer.
AllSettledJobs == \A id \in DOMAIN jobs : jobs[id].status \in Terminal /\ pc[id] = "timer"

\* One step of the queue, seen from the capacity check.
C30_Step ==
  LET size == Cardinality(DOMAIN jobs)
      grew == Len(enqLog') = Len(enqLog) + 1
      e == enqLog'[Len(enqLog')]
  IN /\ (grew /\ size = maxQueueSize /\ AllSettledJobs) =>
          (e.threw = QueueFullError /\ jobs' = jobs)
     /\ (grew /\ size < maxQueueSize) =>
          (e.threw = "none" /\ e.jobId \in DOMAIN jobs')
     /\ evictions' = evictions + 1 =>
          /\ Cardinality(DOMAIN jobs') = size - 1
          /\ Cardinality(DOMAIN jobs') < maxQueueSize
          /\ Len(enqLog) < MaxEnqueues => ENABLED Enqueue

\* C30: a settled job that has not been evicted occupies a capacity slot:
\* enqueueReview throws QueueFullError while the table holds maxQueueSize
\* settled jobs, and once the retention timer of one of them has removed its
\* record the next enqueueReview is accepted.
C30_SettledJobsOccupySlots == [][C30_Step]_vars

\* An enqueue was refused, a settled job was then evicted, and the enqueue
\* after that was accepted.
C30_Witness ==
  /\ evictions >= 1
  /\ \E i \in 1..(Len(enqLog) - 1) : ~Accepted(i) /\ Accepted(i + 1)

\* The chunks whose review call is in flight.
InFlight == {c \in DOMAIN call : call[c] = "inflight"}

\* C31: two chunk reviews in flight at the same time have different
\* reviewer instances and no prompt, result or settings file path in common,
\* and the files a review in flight has written are still there: the
\* cleanup of another review has not deleted them.
C31_OwnReviewerOwnFiles ==
  /\ \A c, d \in InFlight :
       c # d =>
         /\ started[c].reviewer # started[d].reviewer
         /\ PathsOf(started[c]) \cap PathsOf(started[d]) = {}
  /\ \A c \in InFlight :
       /\ started[c].reviewer > 0
       /\ Cardinality(PathsOf(started[c])) = 3
       /\ WrittenBy(started[c]) \subseteq tmpdir

\* Two reviews are in flight after a third one of the same batch has cleaned
\* up its files.
C31_Witness ==
  \E c, d, e \in DOMAIN call :
    /\ c # d /\ c \in InFlight /\ d \in InFlight
    /\ Settled(e) /\ batchIdx > 0 /\ InBatch(batches[batchIdx], e)
    /\ InBatch(batches[batchIdx], c)
    /\ started[e].prompt \notin tmpdir
    /\ started[c].prompt \in tmpdir /\ started[d].prompt \in tmpdir

\* C37: every chunk review is invoked with the MR context of the reviewDiff
\* call it belongs to: the same project id, MR iid, commit SHA and MR URL,
\* for every chunk id.
C37_SameMrContext ==
  \A c \in DOMAIN started :
    started[c].reviewer > 0 => started[c].mr = mrDetails
\* ------------------------------------------------------------------ C32

\* Positions in sentLog of the requests that call k of makeRequest sent.
SentBy(k) == {i \in DOMAIN sentLog : sentLog[i].call = k}

First(idx) == CHOOSE i \in idx : \A j \in idx : i <= j

Last(idx) == CHOOSE i \in idx : \A j \in idx : j <= i

RefreshFailed(k) ==
  k \in DOMAIN mret /\ mret[k].error = "Failed to refresh expired token"

\* C32: makeRequest sends a request at most twice.  The second request is sent
\* exactly when the first response is 401, the client holds a refresh token
\* and the refresh succeeded; it carries the new token, and its response is
\* what makeRequest returns, a 401 included.  When the refresh fails the
\* error propagates and nothing more is sent; without a refresh token the
\* first response is returned.
C32_RetriesAtMostOnce ==
  \A k \in 1..MaxRequests :
    LET idx == SentBy(k) IN
      idx # {} =>
        LET first == sentLog[First(idx)]
            last  == sentLog[Last(idx)] IN
          /\ Cardinality(idx) <= 2
          /\ Cardinality(idx) = 2 =>
               /\ first.status = "401"
               /\ hasRefresh
               /\ last.token > first.token
               /\ ~RefreshFailed(k)
          /\ k \in DOMAIN mret =>
               /\ mret[k].how = "returned" => mret[k].status = last.status
               /\ (first.status = "401" /\ hasRefresh /\ ~RefreshFailed(k)) =>
                    Cardinality(idx) = 2
               /\ RefreshFailed(k) => mret[k].how = "thrown"

\* A retried request was answered 401 again and that response was returned;
\* another call failed to refresh.
C32_Witness ==
  /\ \E k \in DOMAIN mret :
       /\ Cardinality(SentBy(k)) = 2
       /\ mret[k] = Returned("401")
  /\ \E k \in DOMAIN mret : RefreshFailed(k)
\* ------------------------------------------------------------------ C33

\* The events the handler is to enqueue a job for.
C33_Enqueueable(ev) ==
  ev.kind = "merge_request" /\ ev.action \in {"open", "reopen", "update"}

\* Well-formed events of any other kind or action.
C33_Others == {ev \in WebhookEvents : ev.fault = "none" /\ ~C33_Enqueueable(ev)}

\* C33: the webhook handler enqueues a job only for merge_request events whose
\* action is open, reopen or update; every other event is answered 200 and
\* leaves the job records and the queue statistics as they were.
C33_OnlyRelevantEventsEnqueue ==
  [][/\ Len(enqLog') > Len(enqLog) =>
          \E ev \in WebhookEvents : C33_Enqueueable(ev) /\ WebhookPost(ev)
     /\ \A ev \in C33_Others :
          WebhookPost(ev) =>
            /\ lastResponse'.code = 200
            /\ UNCHANGED qvars
            /\ getQueueStats' = getQueueStats]_vars

\* An ignored event was answered 200 while the queue tracks a job.
C33_Witness ==
  /\ lastResponse = Respond(200, 0, Unset)
  /\ DOMAIN jobs # {}
  /\ C33_Others # {}
\* ------------------------------------------------------------------ C34

\* The records that the step removes from the tracking table.
C34_Removed == (DOMAIN jobs) \ (DOMAIN jobs')

\* C34: a job record leaves the tracking table only when the cleanup timer of
\* that job fires, which is after the job became Completed or Failed, never
\* while it is Queued or Running; the step removes that one record and leaves
\* every other record as it was.
C34_EvictionOnlyAfterSettlement ==
  [][\A id \in C34_Removed :
       /\ jobs[id].status \in Terminal
       /\ jobs[id].status \notin {QUEUED, RUNNING}
       /\ pc[id] = "timer"
       /\ C34_Removed = {id}
       /\ \A other \in DOMAIN jobs' : jobs'[other] = jobs[other]]_vars

\* One job has been evicted while another, enqueued before it, is still
\* running.
C34_Witness ==
  \E gone \in JobIds, id \in DOMAIN jobs :
    /\ pc[gone] = "cleaned"
    /\ gone \notin DOMAIN jobs
    /\ id < gone
    /\ jobs[id].status = RUNNING
\* ------------------------------------------------------------------ C35

RECURSIVE C35_InFlightUpTo(_)
\* Review calls in flight for the jobs 1..k.
C35_InFlightUpTo(k) == IF k = 0 THEN 0 ELSE fanout[k].inflight + C35_InFlightUpTo(k - 1)

C35_Outstanding == C35_InFlightUpTo(MaxEnqueues)

RECURSIVE C36_Concat(_)
\* The batches of bs joined into one list.
C36_Concat(bs) == IF bs = << >> THEN << >> ELSE Head(bs) \o C36_Concat(Tail(bs))

\* bs is an order-preserving partition of items into groups of k, the last
\* group possibly smaller.
C36_IsPartition(bs, items, k) ==
  /\ C36_Concat(bs) = items
  /\ \A j \in 1..Len(bs) :
       /\ Len(bs[j]) >= 1
       /\ Len(bs[j]) <= k
       /\ j < Len(bs) => Len(bs[j]) = k

\* C36: for every chunk list and every configured maxConcurrent, createBatches
\* returns, and what it returns is an order-preserving partition of the list
\* into non-empty batches of at most maxConcurrent chunks, all but the last of
\* exactly maxConcurrent; and multiThreadReview returns once every dispatched
\* call has settled.
C36_BatchingTerminates ==
  /\ [](bpc = "returned" => C36_IsPartition(bout, chunks, maxConcurrent))
  /\ <>(bpc = "returned")
  /\ <>(dpc = "returned")
\* ------------------------------------------------------------------ C38

\* C38: every GitLab call made for a job (diff fetch, success status post,
\* failure status post) goes through the client that the route passed to
\* enqueueReview for that job.
C38_CallsUseThePassedClient ==
  \A id \in DOMAIN jobs : \A c \in GitLabCalls(id) : c[2] = clientOf[id]
\* ------------------------------------------------------------------ C39

\* C39: splitDiff returns at least one chunk for every diff text and every
\* maxChunkSize, also when every parsed file is larger than maxChunkSize.
C39_SplitNeverEmpty == spc # "idle" => Len(split) >= 1

\* ------------------------------------------------------------------ C40

\* The file diffs that the content of chunk k is made of, in the order in
\* which they stand in it: every file diff starts with its header line.
C40_PartsOf(k) == parseFileDiffs(split[k].diff_content)

\* The places (chunk, position) at which file diff f stands in a chunk.
C40_PlacesOf(f) ==
  {e \in Entries : e[2] <= Len(C40_PartsOf(e[1])) /\ C40_PartsOf(e[1])[e[2]] = f}

RECURSIVE C40_Joined(_)
\* The file diffs fs joined by single newlines.
C40_Joined(fs) == IF fs = << >> THEN << >> ELSE Head(fs).diff_content \o C40_Joined(Tail(fs))

\* C40: the content of every chunk of the bin-packing path is the diffs of
\* the files the chunk lists, in placement order, joined by single newlines,
\* so its length is total_chars + (number of files - 1); the diff of every
\* file that is placed stands whole in the content of exactly one chunk (an
\* oversized file is placed nowhere).
C40_ContentIsJoinedFileDiffs ==
  OnPackingPath =>
    LET pf == Parsed
        kept == KeptOf(pf)
    IN /\ \A k \in 1..Len(split) :
            LET parts == C40_PartsOf(k)
                chunk == split[k]
            IN /\ Len(parts) = Len(chunk.files)
               /\ \A j \in 1..Len(parts) :
                    /\ parts[j].file_path = chunk.files[j]
                    /\ \E i \in kept : pf[i] = parts[j]
               /\ chunk.diff_content = C40_Joined(parts)
               /\ TextLen(chunk.diff_content) = chunk.total_chars + (Len(chunk.files) - 1)
       /\ \A i \in 1..Len(pf) :
            Cardinality(C40_PlacesOf(pf[i])) =
              Cardinality({j \in kept : pf[j] = pf[i]})

\* Two chunks came out; the second holds two files, joined by one newline.
C40_Witness ==
  /\ OnPackingPath
  /\ Len(split) = 2
  /\ Len(split[2].files) = 2
  /\ Len(split[2].diff_content) = 2
  /\ TextLen(split[2].diff_content) = split[2].total_chars + 1

====
